---- MODULE Spec2Model ----
(***************************************************************************)
(* A model of the IT asset-inventory application: the relational schema of *)
(* assets/models.py, the request handlers of assets/views.py that change   *)
(* it, and the write paths the admin site of assets/admin.py opens.        *)
(*                                                                         *)
(* Every request handler is one action, except the two bulk imports, whose *)
(* loop commits row by row (the database runs in autocommit mode, there is *)
(* no transaction around the loop): the import's position in the file is   *)
(* part of the state (imp) and each row is one action.  Under Spec         *)
(* requests are served one at a time, so no other request runs while an    *)
(* import is in its loop.                                                  *)
(*                                                                         *)
(* Text is a sequence of tokens, " " being white space, so that strip() is *)
(* computed; an empty spreadsheet cell (pandas NaN) is the empty sequence. *)
(***************************************************************************)
EXTENDS Integers, Sequences, FiniteSets, TLC

\* ------------------------------------------------------------------ bounds

\* Handler steps in one behaviour: requests served and spreadsheet rows
\* imported.
MaxSteps == 3
\* Days the clock runs through.
MaxDay == 2
\* Rows ever inserted into the Asset table (primary keys are never reused).
MaxAssets == 2
\* Rows ever inserted into the Employee table.
MaxEmployees == 2
\* Rows ever inserted into each of Category, Location, Vendor, Department.
MaxLookups == 2
\* Rows ever inserted into AssetHistory.
MaxHistory == 3
\* Rows ever inserted into MaintenanceRecord.
MaxMaintenance == 1
\* Data rows of an uploaded spreadsheet.
MaxRows == 2

\* Assign and unassign requests served at the same time.
MaxRequests == 2

\* Data rows of the long spreadsheets: more than the error messages an import
\* shows.
MaxImportRows == 7

\* The handler steps of a behaviour of the reports.
MaxReportSteps == 4

\* Rows ever inserted into auth's User table.
MaxUsers == 4
\* The handler steps of a behaviour of the user-management views.
MaxUserSteps == 4

\* ------------------------------------------------------------ program data

\* None: a null foreign key or a null date (primary keys and days start at 1).
NULL == 0

STATUS_CHOICES == {"available", "assigned", "maintenance", "retired", "lost"}

CONDITION_CHOICES == {"new", "good", "fair", "poor"}

ACTION_CHOICES ==
    {"created", "assigned", "unassigned", "maintenance", "returned",
     "retired", "updated", "location_changed"}

\* The accounts that send requests (all of them staff, so the admin site is
\* open to them).
Users == {1, 2}

Days == 1..MaxDay

\* timedelta(days=30): the window of the warranties that expire soon.
ThirtyDays == 30

\* expiring_warranty[:5]: the rows the dashboard shows.
DashboardRows == 5

\* The dates a warranty_expiry is given: the days of the model, the days the
\* window reaches from them, and a day beyond every window.
WarrantyDates ==
    Days \cup {d + ThirtyDays : d \in Days} \cup {MaxDay + ThirtyDays + 1}

\* ------------------------------------------------------------------- state

VARIABLES
    today,          \* timezone.now().date()
    request_user,   \* the logged-in account the next request comes from
    steps,          \* handler steps left to the behaviour
    departments,    \* Department rows
    employees,      \* Employee rows
    categories,     \* Category rows
    locations,      \* Location rows
    vendors,        \* Vendor rows
    assets,         \* Asset rows
    history,        \* AssetHistory rows, in insertion order
    maintenance,    \* MaintenanceRecord rows
    seq,            \* the next primary key of each table
    imp,            \* the bulk import in progress, if any
    inflight,       \* the assign and unassign requests being served
    users,          \* auth User rows, each with the groups it is in
    groups,         \* auth Group rows
    creating        \* the create_user requests being served

vars ==
    <<today, request_user, steps, departments, employees, categories, locations,
      vendors, assets, history, maintenance, seq, imp, inflight, users,
      groups, creating>>

tables ==
    <<departments, employees, categories, locations, vendors, assets, history,
      maintenance, seq>>

\* ----------------------------------------------------------------- helpers

Ids(table) == {r.id : r \in table}

ById(table, pk) == CHOOSE r \in table : r.id = pk

\* The rows of s, in order, that refer to none of the assets in gone.
Surviving(s, gone) ==
    LET Kept(r) == r.asset \notin gone
    IN  SelectSeq(s, Kept)

\* ---------------------------------------------------------------------- text

\* pandas NaN: an empty spreadsheet cell.
NaN == <<>>

\* pd.notna
notna(cell) == cell # NaN

RECURSIVE lstrip(_)
lstrip(s) == IF s # <<>> /\ Head(s) = " " THEN lstrip(Tail(s)) ELSE s

RECURSIVE rstrip(_)
rstrip(s) ==
    IF s # <<>> /\ s[Len(s)] = " " THEN rstrip(SubSeq(s, 1, Len(s) - 1)) ELSE s

\* str.strip
strip(s) == rstrip(lstrip(s))

\* str(cell): a text cell is itself, an empty numeric cell prints as nan.
str(cell) == IF cell = NaN THEN <<"nan">> ELSE cell

\* The stored string of a stripped text (the cells of the model hold at most
\* one word).
Text(s) == IF s = <<>> THEN "" ELSE s[1]

\* str.lower, on the words the model's cells hold.
lower(w) ==
    CASE w = "Assigned" -> "assigned"
      [] w = "Retired" -> "retired"
      [] w = "Broken" -> "broken"
      [] w = "Good" -> "good"
      [] w = "Worn" -> "worn"
      [] OTHER -> w

\* Employee.full_name
full_name(e) == <<e.first_name, e.last_name>>

\* Employee.__str__
EmployeeStr(e) == <<e.first_name, e.last_name, e.employee_id>>

\* A warranty that ends the day before its expiry date: the comparison C7
\* rules out.
is_under_warranty_strict(a, d) ==
    IF a.warranty_expiry # NULL THEN a.warranty_expiry > d ELSE FALSE

\* Asset.is_under_warranty, the asset read on day d.
is_under_warranty(a, d) ==
    IF a.warranty_expiry # NULL THEN a.warranty_expiry >= d ELSE FALSE

NoImport ==
    [kind |-> "idle", left |-> 0, index |-> 0, success_count |-> 0,
     error_count |-> 0, errors |-> <<>>]

Idle == imp.kind = "idle"

\* None in a nullable text column.
None == <<>>

\* A history row that records every action as an update: the labelling C2
\* rules out.
HistoryRow_updated(asset, action, old_value, new_value) ==
    [id |-> seq.history, asset |-> asset, action |-> "updated",
     performed_by |-> request_user, old_value |-> old_value,
     new_value |-> new_value]

\* A message of django.contrib.messages: its level, its wording and the
\* number in it.
Message(level, text, n) == [level |-> level, text |-> text, n |-> n]

\* A new AssetHistory row (AssetHistory.objects.create).
HistoryRow(asset, action, old_value, new_value) ==
    [id |-> seq.history, asset |-> asset, action |-> action,
     performed_by |-> request_user, old_value |-> old_value,
     new_value |-> new_value]

\* --------------------------------------------------------------------- Init

\* The accounts of a fresh installation: the superuser that createsuperuser
\* made and a staff account; no group yet, no create_user request in service.
Accounts ==
    /\ users = {[id |-> 1, username |-> "root", email |-> "root@x",
                 is_active |-> TRUE, is_superuser |-> TRUE, groups |-> {}],
                [id |-> 2, username |-> "staff", email |-> "staff@x",
                 is_active |-> TRUE, is_superuser |-> FALSE, groups |-> {}]}
    /\ groups = {}
    /\ creating = {}

\* The database of a fresh installation.
Empty ==
    /\ departments = {}
    /\ employees = {}
    /\ categories = {}
    /\ locations = {}
    /\ vendors = {}
    /\ assets = {}
    /\ history = <<>>
    /\ maintenance = {}
    /\ seq = [department |-> 1, employee |-> 1, category |-> 1, location |-> 1,
              vendor |-> 1, asset |-> 1, history |-> 1, maintenance |-> 1]

\* The database after its first four admin forms: request_user has added
\* the department d, the category a, the employee E1 of that department and
\* the asset T1 of that category.
Seeded ==
    /\ departments = {[id |-> 1, name |-> "d"]}
    /\ employees =
           {[id |-> 1, employee_id |-> "E1", first_name |-> "Ann",
             last_name |-> "Lee", email |-> "ann@x", department |-> 1,
             is_active |-> TRUE]}
    /\ categories = {[id |-> 1, name |-> "a"]}
    /\ locations = {}
    /\ vendors = {}
    /\ assets =
           {[id |-> 1, asset_tag |-> "T1", name |-> "n1", category |-> 1,
             status |-> "available", condition |-> "new",
             location |-> NULL, vendor |-> NULL,
             assigned_to |-> NULL, assigned_date |-> NULL,
             warranty_expiry |-> NULL]}
    /\ history =
           <<[id |-> 1, asset |-> 1, action |-> "created",
              performed_by |-> request_user, old_value |-> None,
              new_value |-> None]>>
    /\ maintenance = {}
    /\ seq = [department |-> 2, employee |-> 2, category |-> 2, location |-> 1,
              vendor |-> 1, asset |-> 2, history |-> 2, maintenance |-> 1]

Init ==
    /\ today = 1
    /\ request_user = 1
    /\ steps = MaxSteps
    /\ imp = NoImport
    /\ inflight = {}
    /\ Accounts
    /\ Empty \/ Seeded

\* ------------------------------------------------------------- environment

\* Midnight passes.
Tick ==
    /\ today < MaxDay
    /\ today' = today + 1
    /\ UNCHANGED <<request_user, users, groups, creating, steps, tables, imp,
                   inflight>>

\* The login view: another account logs in, and the requests that follow
\* come from it.
Login(u) ==
    /\ Idle
    /\ steps > 0
    /\ steps' = steps - 1
    /\ u # request_user
    /\ request_user' = u
    /\ UNCHANGED <<today, tables, imp, inflight, users, groups, creating>>

\* One more step of a handler, within the behaviour's budget; the requests
\* served step by step elsewhere stay where they are.
Served ==
    /\ steps > 0
    /\ steps' = steps - 1
    /\ UNCHANGED <<today, request_user, inflight>>

\* A step of a handler that is not one of the user-management views.
Step == Served /\ UNCHANGED <<users, groups, creating>>

\* A request of a one-step view arrives: the server is free (requests are
\* served one at a time).
Request == Idle /\ Step

\* ------------------------------------------------- assign_asset, unassign_asset

\* An assignment that keeps the date of an earlier one: the save C4 rules
\* out.
assigned_keeping_date(asset, employee_id, day) ==
    [asset EXCEPT !.assigned_to = employee_id,
                  !.assigned_date = IF @ # NULL THEN @ ELSE day,
                  !.status = "assigned"]

\* The asset as assign_asset saves it.
assigned(asset, employee_id, day) ==
    [asset EXCEPT !.assigned_to = employee_id,
                  !.assigned_date = day,
                  !.status = "assigned"]

\* An unassignment that leaves the status as it is: the save C3 rules out.
unassigned_keeping_status(asset) ==
    [asset EXCEPT !.assigned_to = NULL, !.assigned_date = NULL]

\* The asset as unassign_asset saves it.
unassigned(asset) ==
    [asset EXCEPT !.assigned_to = NULL,
                  !.assigned_date = NULL,
                  !.status = "available"]

\* An assign_asset that looks the employee up with filter().first() and
\* saves the asset whether or not it found one: the view C20 rules out.
assign_asset_unknown_employee(pk, method, employee_id) ==
    /\ Request
    /\ IF pk \in Ids(assets) /\ method = "POST" /\ employee_id # NULL
       THEN LET asset == ById(assets, pk)
                found == IF employee_id \in Ids(employees) THEN employee_id
                         ELSE NULL
            IN  /\ assets' = (assets \ {asset}) \cup
                                 {assigned(asset, found, today)}
                /\ UNCHANGED <<departments, employees, categories, locations,
                               vendors, history, maintenance, seq, imp>>
       ELSE UNCHANGED <<tables, imp>>

\* An assign_asset that does not look at the method and assigns on a GET
\* that carries an employee_id: the view C28 rules out.
assign_asset_any_method(pk, method, employee_id) ==
    /\ Request
    /\ IF /\ pk \in Ids(assets)
          /\ employee_id # NULL
          /\ employee_id \in Ids(employees)
       THEN LET asset == ById(assets, pk)
                old_assignee == asset.assigned_to
            IN  /\ seq.history <= MaxHistory
                /\ assets' = (assets \ {asset}) \cup
                                 {assigned(asset, employee_id, today)}
                /\ history' = Append(history,
                       HistoryRow(pk, "assigned",
                           IF old_assignee # NULL
                           THEN EmployeeStr(ById(employees, old_assignee))
                           ELSE <<"None">>,
                           full_name(ById(employees, employee_id))))
                /\ seq' = [seq EXCEPT !.history = @ + 1]
                /\ UNCHANGED <<departments, employees, categories, locations,
                               vendors, maintenance, imp>>
       ELSE UNCHANGED <<tables, imp>>

\* assign_asset: method is "GET" or "POST", employee_id the posted field
\* (NULL when the form carries none).  The view answers 404 for an unknown
\* asset or employee, renders the form on GET or without employee_id, and
\* changes nothing in those cases.
assign_asset(pk, method, employee_id) ==
    /\ Request
    /\ IF /\ pk \in Ids(assets)
          /\ method = "POST"
          /\ employee_id # NULL
          /\ employee_id \in Ids(employees)
       THEN LET asset == ById(assets, pk)
                employee == ById(employees, employee_id)
                old_assignee == asset.assigned_to
                saved == assigned(asset, employee_id, today)
            IN  /\ seq.history <= MaxHistory
                /\ assets' = (assets \ {asset}) \cup {saved}
                /\ history' = Append(history,
                       HistoryRow(pk, "assigned",
                           IF old_assignee # NULL
                           THEN EmployeeStr(ById(employees, old_assignee))
                           ELSE <<"None">>,
                           full_name(employee)))
                /\ seq' = [seq EXCEPT !.history = @ + 1]
                /\ UNCHANGED <<departments, employees, categories, locations,
                               vendors, maintenance, imp>>
       ELSE UNCHANGED <<tables, imp>>

\* The response of assign_asset in the state it is called in:
\* get_object_or_404 answers an unknown asset or employee with the 404 page,
\* a completed assignment is answered with a message and the redirect to the
\* asset, anything else with the form.
assign_asset_response(pk, method, employee_id) ==
    IF pk \notin Ids(assets)
    THEN [status |-> "404", to |-> "", messages |-> <<>>]
    ELSE IF method = "POST" /\ employee_id # NULL
    THEN IF employee_id \notin Ids(employees)
         THEN [status |-> "404", to |-> "", messages |-> <<>>]
         ELSE [status |-> "redirect", to |-> "asset_detail",
               messages |-> <<Message("success", "Asset assigned to",
                                      employee_id)>>]
    ELSE [status |-> "page", to |-> "assign_asset", messages |-> <<>>]

\* An unassign_asset without the test of old_assignee: the view C15 rules
\* out.
unassign_asset_unguarded(pk, method) ==
    /\ Request
    /\ IF pk \in Ids(assets) /\ method = "POST"
       THEN LET asset == ById(assets, pk)
                saved == unassigned(asset)
            IN  /\ seq.history <= MaxHistory
                /\ assets' = (assets \ {asset}) \cup {saved}
                /\ history' = Append(history,
                       HistoryRow(pk, "unassigned",
                           IF asset.assigned_to # NULL
                           THEN full_name(ById(employees, asset.assigned_to))
                           ELSE <<"None">>,
                           <<"None">>))
                /\ seq' = [seq EXCEPT !.history = @ + 1]
                /\ UNCHANGED <<departments, employees, categories, locations,
                               vendors, maintenance, imp>>
       ELSE UNCHANGED <<tables, imp>>

\* unassign_asset: 404 for an unknown asset, the confirmation page on GET, and
\* on POST the redirect, with the asset changed only if it had an assignee.
unassign_asset(pk, method) ==
    /\ Request
    /\ IF /\ pk \in Ids(assets)
          /\ method = "POST"
          /\ ById(assets, pk).assigned_to # NULL
       THEN LET asset == ById(assets, pk)
                old_assignee == ById(employees, asset.assigned_to)
                saved == unassigned(asset)
            IN  /\ seq.history <= MaxHistory
                /\ assets' = (assets \ {asset}) \cup {saved}
                /\ history' = Append(history,
                       HistoryRow(pk, "unassigned", full_name(old_assignee),
                                  <<"None">>))
                /\ seq' = [seq EXCEPT !.history = @ + 1]
                /\ UNCHANGED <<departments, employees, categories, locations,
                               vendors, maintenance, imp>>
       ELSE UNCHANGED <<tables, imp>>

\* ------------------------------------- assign_asset, unassign_asset, by statement
\*
\* The two views run without a transaction and without a lock on the asset:
\* each statement commits by itself, and the statements of several requests
\* interleave.  A request being served is a record of inflight: the view, the
\* user, the statement it has reached (pc), the Asset object it holds in
\* memory, the Employee objects it fetched, and the send_email field.

\* The slot a new request is served in: the first that is free.
FreeSlot ==
    CHOOSE id \in 1..(Cardinality(inflight) + 1) :
        \A r \in inflight : r.id # id

\* The request r with its position and fields changed.
Advance(r, moved) == (inflight \ {r}) \cup {moved}

\* The table after asset.save(): the row of that primary key is written with
\* every field of the object in memory.
save(table, object) == {a \in table : a.id # object.id} \cup {object}

\* assign_asset up to old_assignee = asset.assigned_to: a POST with the id of
\* an existing employee, for an existing asset.  The request is served in
\* the free slot id.
assign_asset_get(id, pk, employee_id, send_email) ==
    /\ steps > 0
    /\ steps' = steps - 1
    /\ id = FreeSlot
    /\ pk \in Ids(assets)
    /\ employee_id \in Ids(employees)
    /\ seq.history + Cardinality(inflight) <= MaxHistory
    /\ LET asset == ById(assets, pk)
       IN  inflight' = inflight \cup
               {[id |-> id, view |-> "assign_asset", user |-> request_user,
                 pc |-> "get", asset |-> asset,
                 employee |-> {ById(employees, employee_id)},
                 old_assignee |->
                     {e \in employees : e.id = asset.assigned_to},
                 send_email |-> send_email, level |-> ""]}
    /\ UNCHANGED <<today, request_user, users, groups, creating, tables, imp>>

\* A save that gives way when the row has changed since the request read
\* it (the first write wins): the save C17 rules out.
assign_asset_save_if_unchanged(r) ==
    /\ r \in inflight
    /\ r.view = "assign_asset"
    /\ r.pc = "get"
    /\ LET employee == CHOOSE e \in r.employee : TRUE
           saved == assigned(r.asset, employee.id, today)
       IN  /\ assets' = IF r.asset \in assets THEN save(assets, saved)
                        ELSE assets
           /\ inflight' = Advance(r, [r EXCEPT !.pc = "save", !.asset = saved])
    /\ UNCHANGED <<today, request_user, users, groups, creating, steps,
                   departments, employees, categories, locations, vendors,
                   history, maintenance, seq, imp>>

\* assign_asset: the three assignments and asset.save().
assign_asset_save(r) ==
    /\ r \in inflight
    /\ r.view = "assign_asset"
    /\ r.pc = "get"
    /\ LET employee == CHOOSE e \in r.employee : TRUE
           saved == assigned(r.asset, employee.id, today)
       IN  /\ assets' = save(assets, saved)
           /\ inflight' = Advance(r, [r EXCEPT !.pc = "save", !.asset = saved])
    /\ UNCHANGED <<today, request_user, users, groups, creating, steps,
                   departments, employees, categories, locations, vendors,
                   history, maintenance, seq, imp>>

\* assign_asset: AssetHistory.objects.create.
assign_asset_create(r) ==
    /\ r \in inflight
    /\ r.view = "assign_asset"
    /\ r.pc = "save"
    /\ LET employee == CHOOSE e \in r.employee : TRUE
           row == HistoryRow(r.asset.id, "assigned",
                             IF r.old_assignee # {}
                             THEN EmployeeStr(CHOOSE e \in r.old_assignee : TRUE)
                             ELSE <<"None">>,
                             full_name(employee))
       IN  history' = Append(history, [row EXCEPT !.performed_by = r.user])
    /\ seq' = [seq EXCEPT !.history = @ + 1]
    /\ inflight' = Advance(r, [r EXCEPT !.pc = "create"])
    /\ UNCHANGED <<today, request_user, users, groups, creating, steps,
                   departments, employees, categories, locations, vendors,
                   assets, maintenance, imp>>

\* The level of the message a view queues after its history row: the mail
\* is sent if the form asked for it and the employee has an address, and a
\* mail that fails (mail_ok false) is caught and turned into a warning.
notified(r, employee, mail_ok) ==
    IF r.send_email /\ employee.email # ""
    THEN IF mail_ok THEN "success" ELSE "warning"
    ELSE "success"

\* A notification whose failure undoes the assignment: the handling C14
\* rules out.
assign_asset_send_email_undo(r, mail_ok) ==
    /\ r \in inflight
    /\ r.view = "assign_asset"
    /\ r.pc = "create"
    /\ inflight' = Advance(r,
           [r EXCEPT !.pc = "redirect",
                     !.level = notified(r, CHOOSE e \in r.employee : TRUE,
                                        mail_ok)])
    /\ assets' = IF r.send_email /\ ~mail_ok
                 THEN save(assets, unassigned(r.asset))
                 ELSE assets
    /\ UNCHANGED <<today, request_user, users, groups, creating, steps,
                   departments, employees, categories, locations, vendors,
                   history, maintenance, seq, imp>>

\* assign_asset: the notification, the message and the redirect.
assign_asset_send_email(r, mail_ok) ==
    /\ r \in inflight
    /\ r.view = "assign_asset"
    /\ r.pc = "create"
    /\ inflight' = Advance(r,
           [r EXCEPT !.pc = "redirect",
                     !.level = notified(r, CHOOSE e \in r.employee : TRUE,
                                        mail_ok)])
    /\ UNCHANGED <<today, request_user, users, groups, creating, steps, tables,
                   imp>>

\* unassign_asset up to old_assignee = asset.assigned_to: a POST for an
\* existing asset that has an assignee.
unassign_asset_get(id, pk, send_email) ==
    /\ steps > 0
    /\ steps' = steps - 1
    /\ id = FreeSlot
    /\ pk \in Ids(assets)
    /\ ById(assets, pk).assigned_to \in Ids(employees)
    /\ seq.history + Cardinality(inflight) <= MaxHistory
    /\ LET asset == ById(assets, pk)
       IN  inflight' = inflight \cup
               {[id |-> id, view |-> "unassign_asset", user |-> request_user,
                 pc |-> "get", asset |-> asset, employee |-> {},
                 old_assignee |->
                     {e \in employees : e.id = asset.assigned_to},
                 send_email |-> send_email, level |-> ""]}
    /\ UNCHANGED <<today, request_user, users, groups, creating, tables, imp>>

\* unassign_asset: the three assignments and asset.save().
unassign_asset_save(r) ==
    /\ r \in inflight
    /\ r.view = "unassign_asset"
    /\ r.pc = "get"
    /\ LET saved == unassigned(r.asset)
       IN  /\ assets' = save(assets, saved)
           /\ inflight' = Advance(r, [r EXCEPT !.pc = "save", !.asset = saved])
    /\ UNCHANGED <<today, request_user, users, groups, creating, steps,
                   departments, employees, categories, locations, vendors,
                   history, maintenance, seq, imp>>

\* unassign_asset: AssetHistory.objects.create.
unassign_asset_create(r) ==
    /\ r \in inflight
    /\ r.view = "unassign_asset"
    /\ r.pc = "save"
    /\ LET row == HistoryRow(r.asset.id, "unassigned",
                             full_name(CHOOSE e \in r.old_assignee : TRUE),
                             <<"None">>)
       IN  history' = Append(history, [row EXCEPT !.performed_by = r.user])
    /\ seq' = [seq EXCEPT !.history = @ + 1]
    /\ inflight' = Advance(r, [r EXCEPT !.pc = "create"])
    /\ UNCHANGED <<today, request_user, users, groups, creating, steps,
                   departments, employees, categories, locations, vendors,
                   assets, maintenance, imp>>

\* unassign_asset: the notification, the message and the redirect.
unassign_asset_send_email(r, mail_ok) ==
    /\ r \in inflight
    /\ r.view = "unassign_asset"
    /\ r.pc = "create"
    /\ inflight' = Advance(r,
           [r EXCEPT !.pc = "redirect",
                     !.level = notified(r, CHOOSE e \in r.old_assignee : TRUE,
                                        mail_ok)])
    /\ UNCHANGED <<today, request_user, users, groups, creating, steps, tables,
                   imp>>

\* The response of a request that reached its redirect goes out.
respond(r) ==
    /\ r \in inflight
    /\ r.pc = "redirect"
    /\ inflight' = inflight \ {r}
    /\ UNCHANGED <<today, request_user, users, groups, creating, steps, tables,
                   imp>>

\* A stop that takes back the save of the request, as a stop inside
\* transaction.atomic() would: the repair C18 rules out.
stop_rollback(r) ==
    /\ r \in inflight
    /\ r.pc # "redirect"
    /\ inflight' = inflight \ {r}
    /\ assets' =
           IF r.pc = "save"
           THEN LET old == IF r.old_assignee = {} THEN NULL
                           ELSE (CHOOSE e \in r.old_assignee : TRUE).id
                IN  save(assets,
                         [r.asset EXCEPT
                            !.assigned_to = old,
                            !.status = IF old = NULL THEN "available"
                                       ELSE "assigned"])
           ELSE assets
    /\ UNCHANGED <<today, request_user, users, groups, creating, steps,
                   departments, employees, categories, locations, vendors,
                   history, maintenance, seq, imp>>

\* The worker serving a request stops (it is killed, or a statement raises):
\* what its statements committed stays committed.
stop(r) ==
    /\ r \in inflight
    /\ r.pc # "redirect"
    /\ inflight' = inflight \ {r}
    /\ UNCHANGED <<today, request_user, users, groups, creating, steps, tables,
                   imp>>

\* ---------------------------------------------------------------- bulk_import

\* A lookup that finds nothing: with it every row of an import inserts, the
\* upsert C13 rules out.
matching_none(table, field, key) == {}

\* Model.objects.filter(field=key): the rows update_or_create looks up by
\* the natural key.
matching(table, field, key) == {r \in table : r[field] = key}

\* Model.objects.create(name=...): a row made whether or not one of the name
\* exists, the lookup C10 rules out.
always_create(table, next, name) ==
    [raised |-> FALSE, rows |-> table \cup {[id |-> next, name |-> name]},
     obj |-> next, created |-> TRUE]

\* Model.objects.get_or_create(name=...) on a lookup table whose name column
\* is not unique: the row found, a row made, or MultipleObjectsReturned.
get_or_create(table, next, name) ==
    LET found == {r \in table : r.name = name}
    IN  IF Cardinality(found) > 1
        THEN [raised |-> TRUE, rows |-> table, obj |-> NULL, created |-> FALSE]
        ELSE IF found = {}
        THEN [raised |-> FALSE, rows |-> table \cup {[id |-> next, name |-> name]},
              obj |-> next, created |-> TRUE]
        ELSE [raised |-> FALSE, rows |-> table,
              obj |-> (CHOOSE r \in found : TRUE).id, created |-> FALSE]

\* The lookup of one optional column of a row: None when the cell is empty.
lookup_cell(table, next, cell) ==
    IF notna(cell)
    THEN get_or_create(table, next, Text(strip(str(cell))))
    ELSE [raised |-> FALSE, rows |-> table, obj |-> NULL, created |-> FALSE]

\* The rows a spreadsheet of assets holds: the required columns, the optional
\* status and purchase_cost, and without the lookup columns (every cell of
\* theirs empty).
PlainRows ==
    [asset_tag : {<<"T1">>, <<" ", "T2">>}, name : {<<"n2", " ">>},
     category : {NaN}, location : {NaN}, vendor : {NaN},
     status : {NaN, <<" ", "Assigned">>}, condition : {NaN},
     purchase_cost : {<<"75000">>, <<"n/a">>}]

\* The rows of a spreadsheet that names categories, locations and vendors.
LookupRows ==
    [asset_tag : {<<"T1">>, <<" ", "T2">>}, name : {<<"n1">>},
     category : {NaN, <<"a", " ">>, <<"b">>},
     location : {NaN, <<" ", "a">>}, vendor : {NaN, <<"a">>},
     status : {NaN}, condition : {NaN}, purchase_cost : {NaN, <<"n/a">>}]

\* The rows of a spreadsheet whose status and condition cells hold what its
\* author typed: nothing, a choice in another case and with white space,
\* and a word that is no choice.
CellRows ==
    [asset_tag : {<<"T1">>, <<"T2">>}, name : {<<"n1">>},
     category : {NaN}, location : {NaN}, vendor : {NaN},
     status : {NaN, <<" ", "Retired">>, <<"Broken">>},
     condition : {NaN, <<"Good", " ">>, <<"Worn">>},
     purchase_cost : {NaN}]

\* The rows of the long spreadsheets of assets: a tag under one name, the
\* same tag spelt with white space under another name, and a second tag,
\* each with an empty cost or one that is no number.
ImportRows ==
    [asset_tag : {<<"T1">>}, name : {<<"n1">>},
     category : {NaN}, location : {NaN}, vendor : {NaN}, status : {NaN},
     condition : {NaN}, purchase_cost : {NaN, <<"n/a">>}]
    \cup
    [asset_tag : {<<" ", "T1">>}, name : {<<"n2">>},
     category : {NaN}, location : {NaN}, vendor : {NaN}, status : {NaN},
     condition : {NaN}, purchase_cost : {NaN, <<"n/a">>}]
    \cup
    [asset_tag : {<<"T2">>}, name : {<<"n1">>},
     category : {NaN}, location : {NaN}, vendor : {NaN}, status : {NaN},
     condition : {NaN}, purchase_cost : {NaN, <<"n/a">>}]

\* float(cell) raises ValueError on a cell that is no number.
float_raises(cell) == cell = <<"n/a">>

\* A loop that a failing row ends (break in the except clause): the
\* bookkeeping C11 rules out.
row_done_abort(ok) ==
    [imp EXCEPT !.left = IF ok THEN @ - 1 ELSE 0,
                !.index = @ + 1,
                !.success_count = IF ok THEN @ + 1 ELSE @,
                !.error_count = IF ok THEN @ ELSE @ + 1,
                !.errors = IF ok THEN @ ELSE Append(@, imp.index + 2)]

\* The import's bookkeeping after a row: the tail of the loop body, or its
\* except clause.
row_done(ok) ==
    [imp EXCEPT !.left = @ - 1,
                !.index = @ + 1,
                !.success_count = IF ok THEN @ + 1 ELSE @,
                !.error_count = IF ok THEN @ ELSE @ + 1,
                !.errors = IF ok THEN @ ELSE Append(@, imp.index + 2)]

\* bulk_import, POST of a readable spreadsheet with the required columns and
\* nrows data rows: the loop starts.
bulk_import(nrows) ==
    /\ Request
    /\ imp' = [NoImport EXCEPT !.kind = "assets", !.left = nrows]
    /\ UNCHANGED tables

\* An update that also returns the asset to the pool, clearing its
\* assignment: the update C29 rules out.
updated_unassigning(asset, defaults) ==
    [asset EXCEPT !.name = defaults.name,
                  !.category = defaults.category,
                  !.status = defaults.status,
                  !.condition = defaults.condition,
                  !.location = defaults.location,
                  !.vendor = defaults.vendor,
                  !.assigned_to = NULL,
                  !.assigned_date = NULL]

\* update_or_create on an asset_tag that exists: the fields of defaults are
\* set on the row and every other field stays.
updated(asset, defaults) ==
    [asset EXCEPT !.name = defaults.name,
                  !.category = defaults.category,
                  !.status = defaults.status,
                  !.condition = defaults.condition,
                  !.location = defaults.location,
                  !.vendor = defaults.vendor]

\* One pass of bulk_import's loop, over the next row of the file.
bulk_import_row(row) ==
    /\ imp.kind = "assets"
    /\ imp.left > 0
    /\ Step
    /\ LET c == lookup_cell(categories, seq.category, row.category)
           l == lookup_cell(locations, seq.location, row.location)
           v == lookup_cell(vendors, seq.vendor, row.vendor)
           \* how far the row gets before an exception ends it
           reach == IF c.raised THEN 0
                    ELSE IF l.raised THEN 1
                    ELSE IF v.raised THEN 2
                    ELSE IF notna(row.purchase_cost)
                            /\ float_raises(row.purchase_cost) THEN 3
                    ELSE 4
           tag == Text(strip(str(row.asset_tag)))
           found == matching(assets, "asset_tag", tag)
           created == found = {}
           defaults ==
               [name |-> Text(strip(str(row.name))),
                category |-> c.obj,
                status |-> IF notna(row.status)
                           THEN lower(Text(strip(str(row.status))))
                           ELSE "available",
                condition |-> IF notna(row.condition)
                              THEN lower(Text(strip(str(row.condition))))
                              ELSE "new",
                location |-> l.obj,
                vendor |-> v.obj]
           asset ==
               IF created
               THEN [id |-> seq.asset, asset_tag |-> tag,
                     name |-> defaults.name, category |-> defaults.category,
                     status |-> defaults.status,
                     condition |-> defaults.condition,
                     location |-> defaults.location,
                     vendor |-> defaults.vendor, assigned_to |-> NULL,
                     assigned_date |-> NULL, warranty_expiry |-> NULL]
               ELSE updated(CHOOSE a \in found : TRUE, defaults)
       IN  /\ c.created => seq.category <= MaxLookups
           /\ (reach >= 1 /\ l.created) => seq.location <= MaxLookups
           /\ (reach >= 2 /\ v.created) => seq.vendor <= MaxLookups
           /\ (reach = 4 /\ created) =>
                  seq.asset <= MaxAssets /\ seq.history <= MaxHistory
           /\ categories' = c.rows
           /\ locations' = IF reach >= 1 THEN l.rows ELSE locations
           /\ vendors' = IF reach >= 2 THEN v.rows ELSE vendors
           /\ assets' = IF reach = 4 THEN (assets \ found) \cup {asset}
                        ELSE assets
           /\ history' =
                  IF reach = 4 /\ created
                  THEN Append(history,
                              HistoryRow(asset.id, "created", None, None))
                  ELSE history
           /\ seq' = [seq EXCEPT
                  !.category = IF c.created THEN @ + 1 ELSE @,
                  !.location = IF reach >= 1 /\ l.created THEN @ + 1 ELSE @,
                  !.vendor = IF reach >= 2 /\ v.created THEN @ + 1 ELSE @,
                  !.asset = IF reach = 4 /\ created THEN @ + 1 ELSE @,
                  !.history = IF reach = 4 /\ created THEN @ + 1 ELSE @]
           /\ imp' = row_done(reach = 4)
    /\ UNCHANGED <<departments, employees, maintenance>>

\* errors[:5]: the error messages an asset import shows.
MaxErrorsShown == 5

\* A response that shows every error message (errors without the slice): the
\* list C12 rules out.
bulk_import_done_all(i) ==
    [status |-> "redirect", to |-> "asset_list",
     messages |->
         (IF i.success_count > 0
          THEN <<Message("success", "Successfully imported assets",
                         i.success_count)>>
          ELSE <<>>)
         \o
         (IF i.error_count > 0
          THEN <<Message("warning", "rows had errors", i.error_count)>> \o
               [k \in 1..Len(i.errors) |-> Message("error", "Row", i.errors[k])]
          ELSE <<>>)]

\* The response of bulk_import when its loop has ended with the counters i:
\* the messages queued for the user and the redirect to the asset list.
bulk_import_done(i) ==
    [status |-> "redirect", to |-> "asset_list",
     messages |->
         (IF i.success_count > 0
          THEN <<Message("success", "Successfully imported assets",
                         i.success_count)>>
          ELSE <<>>)
         \o
         (IF i.error_count > 0
          THEN <<Message("warning", "rows had errors", i.error_count)>> \o
               [k \in 1..(IF Len(i.errors) < MaxErrorsShown
                          THEN Len(i.errors) ELSE MaxErrorsShown) |->
                   Message("error", "Row", i.errors[k])]
          ELSE <<>>)]

\* An upload as bulk_import's checks see it: whether the form carries a
\* file, whether its name ends in .xlsx or .xls, whether pandas reads it and
\* whether it has the required columns.
Uploads == [file : BOOLEAN, excel_name : BOOLEAN, readable : BOOLEAN,
            columns : BOOLEAN]

\* The upload passes bulk_import's checks and reaches the loop.
bulk_import_accepts(upload) ==
    upload.file /\ upload.excel_name /\ upload.readable /\ upload.columns

\* The response of bulk_import to an upload that fails one of its checks: an
\* error message and the redirect back to the form.
bulk_import_refusal(upload) ==
    [status |-> "redirect", to |-> "bulk_import",
     messages |->
         <<Message("error",
                   IF ~upload.file THEN "Please select a file"
                   ELSE IF ~upload.excel_name
                   THEN "Please upload an Excel file (.xlsx or .xls)"
                   ELSE IF ~upload.readable THEN "Error processing file"
                   ELSE "Missing required column", 0)>>]

\* bulk_import, POST of an upload that fails one of the checks.
bulk_import_rejected(upload) ==
    /\ Request
    /\ ~bulk_import_accepts(upload)
    /\ UNCHANGED <<tables, imp>>

\* The end of bulk_import's loop: the messages and the redirect.
bulk_import_end ==
    /\ imp.kind = "assets"
    /\ imp.left = 0
    /\ imp' = NoImport
    /\ UNCHANGED <<today, request_user, users, groups, creating, steps, tables,
                   inflight>>

\* ------------------------------------------------------ bulk_import_employees

\* The unique index on Employee.email: another row holds the address.
email_taken(others, email) == \E e \in others : e.email = email

\* The employee import's bookkeeping after a row: it counts, and keeps no
\* list of errors.
employee_row_done(ok) ==
    [imp EXCEPT !.left = @ - 1,
                !.index = @ + 1,
                !.success_count = IF ok THEN @ + 1 ELSE @,
                !.error_count = IF ok THEN @ ELSE @ + 1]

\* The rows a spreadsheet of employees holds.
EmployeeRows ==
    [employee_id : {<<"E1">>}, first_name : {<<"Ann">>, <<" ", "Bob">>},
     last_name : {<<"Lee">>}, email : {<<"ann@x">>},
     department : {NaN, <<"d", " ">>}]
    \cup
    [employee_id : {<<"E2", " ">>}, first_name : {<<"Bob">>},
     last_name : {<<"Ray">>}, email : {<<"bob@x", " ">>},
     department : {NaN, <<"d", " ">>}]

\* The rows of the long spreadsheets of employees: one key under either of
\* two first names, and a second key with an address of its own or with the
\* address of the first.
ImportEmployeeRows ==
    [employee_id : {<<"E1">>}, first_name : {<<"Ann">>, <<"Bob">>},
     last_name : {<<"Lee">>}, email : {<<"ann@x">>}, department : {NaN}]
    \cup
    [employee_id : {<<"E2", " ">>}, first_name : {<<"Bob">>},
     last_name : {<<"Ray">>}, email : {<<"bob@x">>, <<"ann@x">>},
     department : {NaN}]

\* bulk_import_employees, POST of a readable spreadsheet with the required
\* columns and nrows data rows: the loop starts.
bulk_import_employees(nrows) ==
    /\ Request
    /\ imp' = [NoImport EXCEPT !.kind = "employees", !.left = nrows]
    /\ UNCHANGED tables

\* One pass of bulk_import_employees' loop.
bulk_import_employees_row(row) ==
    /\ imp.kind = "employees"
    /\ imp.left > 0
    /\ Step
    /\ LET d == lookup_cell(departments, seq.department, row.department)
           employee_id == Text(strip(str(row.employee_id)))
           found == matching(employees, "employee_id", employee_id)
           created == found = {}
           defaults ==
               [first_name |-> Text(strip(str(row.first_name))),
                last_name |-> Text(strip(str(row.last_name))),
                email |-> Text(strip(str(row.email))),
                department |-> d.obj,
                is_active |-> TRUE]
           employee ==
               [id |-> IF created THEN seq.employee
                       ELSE (CHOOSE e \in found : TRUE).id,
                employee_id |-> employee_id,
                first_name |-> defaults.first_name,
                last_name |-> defaults.last_name,
                email |-> defaults.email,
                department |-> defaults.department,
                is_active |-> defaults.is_active]
           \* Employee.email is unique: the INSERT or UPDATE of an address
           \* another employee holds raises IntegrityError
           ok == /\ ~d.raised
                 /\ ~email_taken(employees \ found, defaults.email)
       IN  /\ d.created => seq.department <= MaxLookups
           /\ (ok /\ created) => seq.employee <= MaxEmployees
           /\ departments' = d.rows
           /\ employees' = IF ok THEN (employees \ found) \cup {employee}
                           ELSE employees
           /\ seq' = [seq EXCEPT
                  !.department = IF d.created THEN @ + 1 ELSE @,
                  !.employee = IF ok /\ created THEN @ + 1 ELSE @]
           /\ imp' = employee_row_done(ok)
    /\ UNCHANGED <<categories, locations, vendors, assets, history,
                   maintenance>>

\* The response of bulk_import_employees when its loop has ended with the
\* counters i: one message with both counts, and the redirect.
bulk_import_employees_done(i) ==
    [status |-> "redirect", to |-> "employee_list",
     messages |->
         <<[level |-> "success", text |-> "Imported employees, errors",
            n |-> i.success_count, errors |-> i.error_count]>>]

\* The upload passes bulk_import_employees' checks and reaches the loop: the
\* view does not look at the file's name.
bulk_import_employees_accepts(upload) ==
    upload.file /\ upload.readable /\ upload.columns

\* The response of bulk_import_employees to an upload that fails one of its
\* checks: a file pandas cannot read is caught by the outer except clause,
\* which queues the message and falls through to the form page.
bulk_import_employees_refusal(upload) ==
    IF ~upload.file
    THEN [status |-> "redirect", to |-> "bulk_import_employees",
          messages |-> <<Message("error", "Please select a file", 0)>>]
    ELSE IF ~upload.readable
    THEN [status |-> "page", to |-> "bulk_import_employees",
          messages |-> <<Message("error", "Error", 0)>>]
    ELSE [status |-> "redirect", to |-> "bulk_import_employees",
          messages |-> <<Message("error", "Missing required column", 0)>>]

\* bulk_import_employees, POST of an upload that fails one of the checks.
bulk_import_employees_rejected(upload) ==
    /\ Request
    /\ ~bulk_import_employees_accepts(upload)
    /\ UNCHANGED <<tables, imp>>

\* The end of bulk_import_employees' loop: the message and the redirect.
bulk_import_employees_end ==
    /\ imp.kind = "employees"
    /\ imp.left = 0
    /\ imp' = NoImport
    /\ UNCHANGED <<today, request_user, users, groups, creating, steps, tables,
                   inflight>>

\* --------------------------------------------------------------- admin site

\* on_delete=CASCADE on a lookup reference: the rows that refer to pk go with
\* it, the deletion C8 rules out.
cascade_lookup(table, field, pk) == {r \in table : r[field] # pk}

\* on_delete=SET_NULL: the rows of table with their reference to pk cleared.
set_null(table, field, pk) ==
    {IF r[field] = pk THEN [r EXCEPT ![field] = NULL] ELSE r : r \in table}

\* on_delete=DO_NOTHING: the rows stay, the deletion C9 rules out.
do_nothing(rows, gone) == rows

\* on_delete=CASCADE: the rows of a set that refer to none of the assets gone.
cascade(rows, gone) == {r \in rows : r.asset \notin gone}

\* AssetAdmin's add form, saved by save_model with change = False.  The form
\* is filled in with a tag and a name; its other fields are left as they
\* come, status at its default.  A tag already taken fails the form's
\* validation.
admin_add_asset(asset_tag, name) ==
    /\ Request
    /\ IF \E a \in assets : a.asset_tag = asset_tag
       THEN UNCHANGED <<tables, imp>>
       ELSE /\ seq.asset <= MaxAssets
            /\ seq.history <= MaxHistory
            /\ assets' = assets \cup
                   {[id |-> seq.asset, asset_tag |-> asset_tag, name |-> name,
                     category |-> NULL, status |-> "available",
                     condition |-> "new", location |-> NULL,
                     vendor |-> NULL, assigned_to |-> NULL,
                     assigned_date |-> NULL, warranty_expiry |-> NULL]}
            /\ history' = Append(history,
                                 HistoryRow(seq.asset, "created", None, None))
            /\ seq' = [seq EXCEPT !.asset = @ + 1, !.history = @ + 1]
            /\ UNCHANGED <<departments, employees, categories, locations,
                           vendors, maintenance, imp>>

\* The values AssetAdmin's change form accepts for a field.
FieldChoices(field) ==
    CASE field = "name" -> {"n1", "n2"}
      [] field = "status" -> STATUS_CHOICES
      [] field = "condition" -> CONDITION_CHOICES
      [] field = "category" -> {NULL} \cup Ids(categories)
      [] field = "location" -> {NULL} \cup Ids(locations)
      [] field = "vendor" -> {NULL} \cup Ids(vendors)
      [] field = "assigned_to" -> {NULL} \cup Ids(employees)
      [] field = "assigned_date" -> {NULL} \cup Days
      [] field = "warranty_expiry" -> {NULL} \cup WarrantyDates

\* AssetAdmin's change form, saved by save_model with change = True: the form
\* comes back with one field edited.
admin_change_asset(pk, field, value) ==
    /\ Request
    /\ pk \in Ids(assets)
    /\ value \in FieldChoices(field)
    /\ LET asset == ById(assets, pk)
       IN  /\ asset[field] # value
           /\ assets' = (assets \ {asset}) \cup {[asset EXCEPT ![field] = value]}
    /\ UNCHANGED <<departments, employees, categories, locations, vendors,
                   history, maintenance, seq, imp>>

\* AssetAdmin's delete view: AssetHistory.asset and MaintenanceRecord.asset
\* cascade.
admin_delete_asset(pk) ==
    /\ Request
    /\ pk \in Ids(assets)
    /\ assets' = assets \ {ById(assets, pk)}
    /\ history' = Surviving(history, {pk})
    /\ maintenance' = cascade(maintenance, {pk})
    /\ UNCHANGED <<departments, employees, categories, locations, vendors,
                   seq, imp>>

\* AssetHistoryAdmin's delete view: the class forbids adding and changing.
admin_delete_history(id) ==
    /\ Request
    /\ \E i \in 1..Len(history) :
        /\ history[i].id = id
        /\ history' = SubSeq(history, 1, i - 1) \o
                      SubSeq(history, i + 1, Len(history))
    /\ UNCHANGED <<departments, employees, categories, locations, vendors,
                   assets, maintenance, seq, imp>>

\* MaintenanceRecordAdmin's add form (or AssetAdmin's inline).
admin_add_maintenance(pk) ==
    /\ Request
    /\ pk \in Ids(assets)
    /\ seq.maintenance <= MaxMaintenance
    /\ maintenance' = maintenance \cup {[id |-> seq.maintenance, asset |-> pk]}
    /\ seq' = [seq EXCEPT !.maintenance = @ + 1]
    /\ UNCHANGED <<departments, employees, categories, locations, vendors,
                   assets, history, imp>>

\* EmployeeAdmin's add form: employee_id and email are unique, the department
\* is left blank.
admin_add_employee(employee_id, first_name, last_name, email) ==
    /\ Request
    /\ IF \/ \E e \in employees : e.employee_id = employee_id
          \/ email_taken(employees, email)
       THEN UNCHANGED <<tables, imp>>
       ELSE /\ seq.employee <= MaxEmployees
            /\ employees' = employees \cup
                   {[id |-> seq.employee, employee_id |-> employee_id,
                     first_name |-> first_name, last_name |-> last_name,
                     email |-> email, department |-> NULL,
                     is_active |-> TRUE]}
            /\ seq' = [seq EXCEPT !.employee = @ + 1]
            /\ UNCHANGED <<departments, categories, locations, vendors,
                           assets, history, maintenance, imp>>

\* EmployeeAdmin's changelist, is_active being list_editable.
admin_change_employee(pk, is_active) ==
    /\ Request
    /\ pk \in Ids(employees)
    /\ LET employee == ById(employees, pk)
       IN  /\ employee.is_active # is_active
           /\ employees' = (employees \ {employee}) \cup
                           {[employee EXCEPT !.is_active = is_active]}
    /\ UNCHANGED <<departments, categories, locations, vendors, assets,
                   history, maintenance, seq, imp>>

\* EmployeeAdmin's delete view: Asset.assigned_to is set null.
admin_delete_employee(pk) ==
    /\ Request
    /\ pk \in Ids(employees)
    /\ employees' = employees \ {ById(employees, pk)}
    /\ assets' = set_null(assets, "assigned_to", pk)
    /\ UNCHANGED <<departments, categories, locations, vendors, history,
                   maintenance, seq, imp>>

\* DepartmentAdmin's delete view: Employee.department is set null.
admin_delete_department(pk) ==
    /\ Request
    /\ pk \in Ids(departments)
    /\ departments' = departments \ {ById(departments, pk)}
    /\ employees' = set_null(employees, "department", pk)
    /\ UNCHANGED <<categories, locations, vendors, assets, history,
                   maintenance, seq, imp>>

\* CategoryAdmin's add form: Category.name is not unique.
admin_add_category(name) ==
    /\ Request
    /\ seq.category <= MaxLookups
    /\ categories' = categories \cup {[id |-> seq.category, name |-> name]}
    /\ seq' = [seq EXCEPT !.category = @ + 1]
    /\ UNCHANGED <<departments, employees, locations, vendors, assets,
                   history, maintenance, imp>>

\* CategoryAdmin's delete view: Asset.category is set null.
admin_delete_category(pk) ==
    /\ Request
    /\ pk \in Ids(categories)
    /\ categories' = categories \ {ById(categories, pk)}
    /\ assets' = set_null(assets, "category", pk)
    /\ UNCHANGED <<departments, employees, locations, vendors, history,
                   maintenance, seq, imp>>

\* LocationAdmin's add form: Location.name is not unique.
admin_add_location(name) ==
    /\ Request
    /\ seq.location <= MaxLookups
    /\ locations' = locations \cup {[id |-> seq.location, name |-> name]}
    /\ seq' = [seq EXCEPT !.location = @ + 1]
    /\ UNCHANGED <<departments, employees, categories, vendors, assets,
                   history, maintenance, imp>>

\* LocationAdmin's delete view: Asset.location is set null.
admin_delete_location(pk) ==
    /\ Request
    /\ pk \in Ids(locations)
    /\ locations' = locations \ {ById(locations, pk)}
    /\ assets' = set_null(assets, "location", pk)
    /\ UNCHANGED <<departments, employees, categories, vendors, history,
                   maintenance, seq, imp>>

\* VendorAdmin's add form: Vendor.name is not unique.
admin_add_vendor(name) ==
    /\ Request
    /\ seq.vendor <= MaxLookups
    /\ vendors' = vendors \cup {[id |-> seq.vendor, name |-> name]}
    /\ seq' = [seq EXCEPT !.vendor = @ + 1]
    /\ UNCHANGED <<departments, employees, categories, locations, assets,
                   history, maintenance, imp>>

\* VendorAdmin's delete view: Asset.vendor is set null.
admin_delete_vendor(pk) ==
    /\ Request
    /\ pk \in Ids(vendors)
    /\ vendors' = vendors \ {ById(vendors, pk)}
    /\ assets' = set_null(assets, "vendor", pk)
    /\ UNCHANGED <<departments, employees, categories, locations, history,
                   maintenance, seq, imp>>

\* -------------------------------------------------------- reports, dashboard

\* QuerySet.filter(field__gte=value): NULL compares with nothing.
filter_gte(table, field, value) ==
    {r \in table : r[field] # NULL /\ r[field] >= value}

\* QuerySet.filter(field__lte=value).
filter_lte(table, field, value) ==
    {r \in table : r[field] # NULL /\ r[field] <= value}

\* QuerySet.filter(field__lt=value).
filter_lt(table, field, value) ==
    {r \in table : r[field] # NULL /\ r[field] < value}

\* reports: thirty_days = today + timedelta(days=30).
thirty_days == today + ThirtyDays

\* reports: warranty_valid.
warranty_valid == Cardinality(filter_gte(assets, "warranty_expiry", today))

\* reports: warranty_expiring.
warranty_expiring ==
    Cardinality(filter_lte(filter_gte(assets, "warranty_expiry", today),
                           "warranty_expiry", thirty_days))

\* An expired bucket that takes in the warranties that end today: the
\* count C19 rules out.
warranty_expired_today ==
    Cardinality(filter_lte(assets, "warranty_expiry", today))

\* reports: warranty_expired.
warranty_expired == Cardinality(filter_lt(assets, "warranty_expiry", today))

\* dashboard: expiring_warranty, the first rows by warranty_expiry.
expiring_warranty ==
    LET found == filter_gte(filter_lte(assets, "warranty_expiry", thirty_days),
                            "warranty_expiry", today)
    IN  IF Cardinality(found) <= DashboardRows THEN found
        ELSE CHOOSE shown \in SUBSET found :
                 /\ Cardinality(shown) = DashboardRows
                 /\ \A a \in shown, b \in found \ shown :
                        a.warranty_expiry <= b.warranty_expiry

\* reports, dashboard: the views read the tables and render a page.
reports ==
    /\ Request
    /\ UNCHANGED <<tables, imp>>

\* ------------------------------------------------------------ user management

\* setup_roles: the names of the default groups, in the order it creates
\* them.
roles == <<"Admin", "Manager", "Technician", "Viewer">>

\* request.user: the account of the session, AnonymousUser (no row) when the
\* account is gone or inactive.
Requester == {u \in users : u.id = request_user /\ u.is_active}

\* is_admin(user).
is_admin(user) ==
    \/ user.is_superuser
    \/ \E g \in groups : g.name = "Admin" /\ g.id \in user.groups

\* @login_required @user_passes_test(is_admin): the view runs; otherwise the
\* request is redirected to the login page.
passes_is_admin == \E u \in Requester : is_admin(u)

\* A request of a user-management view arrives.
UserRequest ==
    /\ Idle
    /\ Served
    /\ UNCHANGED <<tables, imp>>

\* A user_toggle_active that lets the requester switch off their own account:
\* the view C25 rules out.
user_toggle_active_any(pk) ==
    /\ UserRequest
    /\ users' = IF passes_is_admin /\ pk \in Ids(users)
                THEN LET user_obj == ById(users, pk)
                     IN  (users \ {user_obj}) \cup
                             {[user_obj EXCEPT !.is_active = ~@]}
                ELSE users
    /\ UNCHANGED <<groups, creating>>

\* user_toggle_active: any method.  The decorators turn away a requester
\* that is_admin refuses, get_object_or_404 an unknown pk, and the view the
\* requester's own account.
user_toggle_active(pk) ==
    /\ UserRequest
    /\ users' = IF passes_is_admin /\ pk \in Ids(users) /\ pk # request_user
                THEN LET user_obj == ById(users, pk)
                     IN  (users \ {user_obj}) \cup
                             {[user_obj EXCEPT !.is_active = ~@]}
                ELSE users
    /\ UNCHANGED <<groups, creating>>

\* The response of user_toggle_active in the state it is called in.
user_toggle_active_response(pk) ==
    IF ~passes_is_admin
    THEN [status |-> "redirect", to |-> "login", messages |-> <<>>]
    ELSE IF pk \notin Ids(users)
    THEN [status |-> "404", to |-> "", messages |-> <<>>]
    ELSE IF pk = request_user
    THEN [status |-> "redirect", to |-> "user_list",
          messages |-> <<Message("error", "You cannot deactivate yourself",
                                 0)>>]
    ELSE [status |-> "redirect", to |-> "user_list",
          messages |-> <<Message("success", "User has been", pk)>>]

\* user_change_role: user_obj.groups.clear() is committed before
\* get_object_or_404(Group, pk=group_id) runs, so an unknown group_id ends
\* the request with the 404 page and the groups cleared.
user_change_role(pk, method, group_id) ==
    /\ UserRequest
    /\ users' =
           IF passes_is_admin /\ method = "POST" /\ pk \in Ids(users)
           THEN LET user_obj == ById(users, pk)
                IN  (users \ {user_obj}) \cup
                        {[user_obj EXCEPT
                            !.groups = IF group_id \in Ids(groups)
                                       THEN {group_id} ELSE {}]}
           ELSE users
    /\ UNCHANGED <<groups, creating>>

\* The response of user_change_role in the state it is called in.
user_change_role_response(pk, method, group_id) ==
    IF ~passes_is_admin
    THEN [status |-> "redirect", to |-> "login", messages |-> <<>>]
    ELSE IF method # "POST"
    THEN [status |-> "redirect", to |-> "user_detail", messages |-> <<>>]
    ELSE IF pk \notin Ids(users)
            \/ (group_id # NULL /\ group_id \notin Ids(groups))
    THEN [status |-> "404", to |-> "", messages |-> <<>>]
    ELSE [status |-> "redirect", to |-> "user_detail",
          messages |-> <<Message("success",
                                 IF group_id = NULL
                                 THEN "removed from all groups"
                                 ELSE "added to group", pk)>>]

\* Group.objects.get_or_create(name=name) for the first n names of roles,
\* in order: a missing group is inserted with the next primary key.
RECURSIVE get_or_create_roles(_, _)
get_or_create_roles(table, n) ==
    IF n = 0 THEN table
    ELSE LET done == get_or_create_roles(table, n - 1)
         IN  IF \E g \in done : g.name = roles[n] THEN done
             ELSE done \cup {[id |-> Cardinality(done) + 1,
                              name |-> roles[n]]}

\* A setup_roles without the decorators: the view C21 rules out.
setup_roles_open ==
    /\ UserRequest
    /\ groups' = get_or_create_roles(groups, Len(roles))
    /\ UNCHANGED <<users, creating>>

\* setup_roles: any method.
setup_roles ==
    /\ UserRequest
    /\ groups' = IF passes_is_admin
                 THEN get_or_create_roles(groups, Len(roles))
                 ELSE groups
    /\ UNCHANGED <<users, creating>>

\* -------------------------------------------------- create_user, by statement

\* Several create_user requests are served at a time, each statement of the
\* view a step.  A request in service is a record with the posted fields,
\* its position pc (the statement that runs next) and the primary key of the
\* user it has inserted.

\* The slot a new create_user request is served in: the first that is free.
FreeCreateSlot ==
    CHOOSE id \in 1..(Cardinality(creating) + 1) :
        \A r \in creating : r.id # id

\* create_user: the decorators, the method and
\* User.objects.filter(username=username).exists().
create_user(method, username, email, group_id) ==
    /\ Idle
    /\ Served
    /\ Cardinality(users) + Cardinality(creating) < MaxUsers
    /\ creating' =
           IF /\ passes_is_admin
              /\ method = "POST"
              /\ ~\E u \in users : u.username = username
           THEN creating \cup
                    {[id |-> FreeCreateSlot, username |-> username,
                      email |-> email,
                      group_id |-> group_id, pc |-> "email", user |-> NULL]}
           ELSE creating
    /\ UNCHANGED <<tables, imp, users, groups>>

\* create_user: User.objects.filter(email=email).exists().
create_user_email(r) ==
    /\ r \in creating
    /\ r.pc = "email"
    /\ creating' = IF \E u \in users : u.email = r.email
                   THEN creating \ {r}
                   ELSE (creating \ {r}) \cup {[r EXCEPT !.pc = "create"]}
    /\ UNCHANGED <<today, request_user, steps, tables, imp, inflight, users,
                   groups>>

\* create_user: User.objects.create_user(...).  The unique index on
\* User.username refuses a name that was taken since the check (the request
\* ends with IntegrityError); nothing refuses an email.
create_user_create(r) ==
    /\ r \in creating
    /\ r.pc = "create"
    /\ IF \E u \in users : u.username = r.username
       THEN /\ users' = users
            /\ creating' = creating \ {r}
       ELSE LET pk == Cardinality(users) + 1
            IN  /\ users' = users \cup
                       {[id |-> pk, username |-> r.username,
                         email |-> r.email, is_active |-> TRUE,
                         is_superuser |-> FALSE, groups |-> {}]}
                /\ creating' =
                       IF r.group_id = NULL THEN creating \ {r}
                       ELSE (creating \ {r}) \cup
                                {[r EXCEPT !.pc = "group", !.user = pk]}
    /\ UNCHANGED <<today, request_user, steps, tables, imp, inflight, groups>>

\* create_user: get_object_or_404(Group, pk=group_id) and
\* user.groups.add(group); an unknown group_id ends the request with the 404
\* page and the user stays.
create_user_group(r) ==
    /\ r \in creating
    /\ r.pc = "group"
    /\ users' =
           IF r.group_id \in Ids(groups)
           THEN LET user == ById(users, r.user)
                IN  (users \ {user}) \cup
                        {[user EXCEPT !.groups = @ \cup {r.group_id}]}
           ELSE users
    /\ creating' = creating \ {r}
    /\ UNCHANGED <<today, request_user, steps, tables, imp, inflight, groups>>

\* ------------------------------------------------------------ specifications

\* The asset lifecycle: assignment, import of spreadsheets without lookup
\* columns, and the admin site's forms for assets, employees, history and
\* maintenance.
Next ==
    \/ Tick
    \/ \E u \in Users : Login(u)
    \/ \E pk \in 1..MaxAssets, m \in {"GET", "POST"}, e \in 0..MaxEmployees :
        assign_asset(pk, m, e)
    \/ \E pk \in 1..MaxAssets, m \in {"GET", "POST"} : unassign_asset(pk, m)
    \/ \E n \in 0..MaxRows : bulk_import(n)
    \/ \E row \in PlainRows : bulk_import_row(row)
    \/ bulk_import_end
    \/ \E n \in 0..MaxRows : bulk_import_employees(n)
    \/ \E row \in EmployeeRows : bulk_import_employees_row(row)
    \/ bulk_import_employees_end
    \/ \E t \in {"T1", "T2"} : admin_add_asset(t, "n1")
    \/ \E pk \in 1..MaxAssets, f \in {"name", "status"},
          v \in {"n1", "n2"} \cup STATUS_CHOICES :
        admin_change_asset(pk, f, v)
    \/ \E pk \in 1..MaxAssets,
          f \in {"assigned_to", "assigned_date", "warranty_expiry"},
          v \in 0..MaxEmployees \cup Days :
        admin_change_asset(pk, f, v)
    \/ \E pk \in 1..MaxAssets : admin_delete_asset(pk)
    \/ \E id \in 1..MaxHistory : admin_delete_history(id)
    \/ \E pk \in 1..MaxAssets : admin_add_maintenance(pk)
    \/ \E e \in {<<"E1", "Ann", "Lee", "ann@x">>,
                 <<"E2", "Bob", "Ray", "bob@x">>} :
        admin_add_employee(e[1], e[2], e[3], e[4])
    \/ \E pk \in 1..MaxEmployees, b \in BOOLEAN : admin_change_employee(pk, b)
    \/ \E pk \in 1..MaxEmployees : admin_delete_employee(pk)

Spec == Init /\ [][Next]_vars

\* The lookup tables: import of spreadsheets that name categories, locations,
\* vendors and departments, and the admin site's forms for those tables.
NextLookup ==
    \/ \E n \in 0..MaxRows : bulk_import(n)
    \/ \E row \in LookupRows : bulk_import_row(row)
    \/ bulk_import_end
    \/ \E n \in 0..MaxRows : bulk_import_employees(n)
    \/ \E row \in EmployeeRows : bulk_import_employees_row(row)
    \/ bulk_import_employees_end
    \/ \E pk \in 1..MaxAssets, e \in 1..MaxEmployees :
        assign_asset(pk, "POST", e)
    \/ \E name \in {"a", "b"} : admin_add_category(name)
    \/ admin_add_location("a")
    \/ admin_add_vendor("a")
    \/ \E pk \in 1..MaxLookups : admin_delete_category(pk)
    \/ \E pk \in 1..MaxLookups : admin_delete_location(pk)
    \/ \E pk \in 1..MaxLookups : admin_delete_vendor(pk)
    \/ \E pk \in 1..MaxLookups : admin_delete_department(pk)

SpecLookup == Init /\ [][NextLookup]_vars

\* The seeded database with a second employee, E2, added by its admin form.
InitRequests ==
    /\ today = 1
    /\ request_user = 1
    /\ steps = MaxRequests
    /\ imp = NoImport
    /\ inflight = {}
    /\ Accounts
    /\ departments = {[id |-> 1, name |-> "d"]}
    /\ employees =
           {[id |-> 1, employee_id |-> "E1", first_name |-> "Ann",
             last_name |-> "Lee", email |-> "ann@x", department |-> 1,
             is_active |-> TRUE],
            [id |-> 2, employee_id |-> "E2", first_name |-> "Bob",
             last_name |-> "Ray", email |-> "bob@x", department |-> NULL,
             is_active |-> TRUE]}
    /\ categories = {[id |-> 1, name |-> "a"]}
    /\ locations = {}
    /\ vendors = {}
    /\ assets =
           {[id |-> 1, asset_tag |-> "T1", name |-> "n1", category |-> 1,
             status |-> "available", condition |-> "new",
             location |-> NULL, vendor |-> NULL,
             assigned_to |-> NULL, assigned_date |-> NULL,
             warranty_expiry |-> NULL]}
    /\ history =
           <<[id |-> 1, asset |-> 1, action |-> "created",
              performed_by |-> request_user, old_value |-> None,
              new_value |-> None]>>
    /\ maintenance = {}
    /\ seq = [department |-> 2, employee |-> 3, category |-> 2, location |-> 1,
              vendor |-> 1, asset |-> 2, history |-> 2, maintenance |-> 1]

\* Assign and unassign requests served statement by statement, several at a
\* time.
NextRequests ==
    \/ \E id \in 1..MaxRequests, pk \in 1..MaxAssets, e \in 1..MaxEmployees,
          send_email \in BOOLEAN :
        assign_asset_get(id, pk, e, send_email)
    \/ \E r \in inflight : assign_asset_save(r)
    \/ \E r \in inflight : assign_asset_create(r)
    \/ \E r \in inflight, mail_ok \in BOOLEAN : assign_asset_send_email(r, mail_ok)
    \/ \E id \in 1..MaxRequests, pk \in 1..MaxAssets, send_email \in BOOLEAN :
        unassign_asset_get(id, pk, send_email)
    \/ \E r \in inflight : unassign_asset_save(r)
    \/ \E r \in inflight : unassign_asset_create(r)
    \/ \E r \in inflight, mail_ok \in BOOLEAN :
        unassign_asset_send_email(r, mail_ok)
    \/ \E r \in inflight : respond(r)
    \/ \E r \in inflight : stop(r)

SpecRequests == InitRequests /\ [][NextRequests]_vars

\* The database of a fresh installation, before the long imports.
InitImport ==
    /\ today = 1
    /\ request_user = 1
    /\ steps = MaxImportRows + 1
    /\ imp = NoImport
    /\ inflight = {}
    /\ Accounts
    /\ Empty

\* The imports: long spreadsheets of assets and of employees, uploads that
\* fail the views' checks, and assignment of what was imported.
NextImport ==
    \/ \E n \in 0..MaxRows \cup {MaxImportRows} : bulk_import(n)
    \/ \E row \in ImportRows : bulk_import_row(row)
    \/ bulk_import_end
    \/ \E upload \in Uploads : bulk_import_rejected(upload)
    \/ \E n \in 0..MaxRows \cup {MaxImportRows} : bulk_import_employees(n)
    \/ \E row \in ImportEmployeeRows : bulk_import_employees_row(row)
    \/ bulk_import_employees_end
    \/ \E upload \in Uploads : bulk_import_employees_rejected(upload)
    \/ \E pk \in 1..MaxAssets, e \in 0..MaxEmployees :
        assign_asset(pk, "POST", e)

SpecImport == InitImport /\ [][NextImport]_vars

\* A small inventory on which the report is asked for.
InitReport ==
    /\ today = 1
    /\ request_user = 1
    /\ steps = MaxReportSteps
    /\ imp = NoImport
    /\ inflight = {}
    /\ Accounts
    /\ Empty \/ Seeded

\* The report as days pass and the admin site adds assets and sets their
\* warranty dates.
NextReport ==
    \/ Tick
    \/ \E t \in {"T1", "T2"} : admin_add_asset(t, "n1")
    \/ \E pk \in 1..MaxAssets, v \in {NULL} \cup WarrantyDates :
        admin_change_asset(pk, "warranty_expiry", v)
    \/ \E pk \in 1..MaxAssets : admin_delete_asset(pk)
    \/ reports

SpecReport == InitReport /\ [][NextReport]_vars

\* Assign and unassign requests served several at a time, each to its
\* redirect: no worker stops.
NextServed ==
    \/ \E id \in 1..MaxRequests, pk \in 1..MaxAssets, e \in 1..MaxEmployees,
          send_email \in BOOLEAN :
        assign_asset_get(id, pk, e, send_email)
    \/ \E r \in inflight : assign_asset_save(r)
    \/ \E r \in inflight : assign_asset_create(r)
    \/ \E r \in inflight, mail_ok \in BOOLEAN : assign_asset_send_email(r, mail_ok)
    \/ \E id \in 1..MaxRequests, pk \in 1..MaxAssets, send_email \in BOOLEAN :
        unassign_asset_get(id, pk, send_email)
    \/ \E r \in inflight : unassign_asset_save(r)
    \/ \E r \in inflight : unassign_asset_create(r)
    \/ \E r \in inflight, mail_ok \in BOOLEAN :
        unassign_asset_send_email(r, mail_ok)
    \/ \E r \in inflight : respond(r)

SpecServed == InitRequests /\ [][NextServed]_vars

\* Import of spreadsheets with typed status and condition cells, and the
\* admin site's forms for those fields.
NextCells ==
    \/ \E n \in 1..MaxRows : bulk_import(n)
    \/ \E row \in CellRows : bulk_import_row(row)
    \/ bulk_import_end
    \/ \E t \in {"T1", "T2"} : admin_add_asset(t, "n1")
    \/ \E pk \in 1..MaxAssets, f \in {"status", "condition"},
          v \in STATUS_CHOICES \cup CONDITION_CHOICES :
        admin_change_asset(pk, f, v)

SpecCells == Init /\ [][NextCells]_vars

\* The accounts of a fresh installation and an empty inventory.
InitUsers ==
    /\ today = 1
    /\ request_user = 1
    /\ steps = MaxUserSteps
    /\ imp = NoImport
    /\ inflight = {}
    /\ Accounts
    /\ Empty

\* The user-management views, asked for by whoever is logged in.
NextUsers ==
    \/ \E u \in Ids(users) : Login(u)
    \/ \E pk \in 1..MaxUsers : user_toggle_active(pk)
    \/ \E pk \in 1..MaxUsers, method \in {"GET", "POST"},
          group_id \in {NULL, 1, Len(roles) + 1} :
        user_change_role(pk, method, group_id)
    \/ setup_roles
    \/ \E method \in {"GET", "POST"}, username \in {"staff", "u1", "u2"},
          email \in {"staff@x", "a@x"}, group_id \in {NULL, 1} :
        create_user(method, username, email, group_id)
    \/ \E r \in creating : create_user_email(r)
    \/ \E r \in creating : create_user_create(r)
    \/ \E r \in creating : create_user_group(r)

SpecUsers == InitUsers /\ [][NextUsers]_vars

\* ------------------------------------------------------------------ claims

\* The history rows of one asset, in insertion order.
HistoryOf(h, pk) ==
    LET Mine(r) == r.asset = pk
    IN  SelectSeq(h, Mine)

Last(s) == s[Len(s)]

\* The step appends exactly one history row, for asset pk, with this action.
AppendsOne(pk, action) ==
    /\ Len(history') = Len(history) + 1
    /\ SubSeq(history', 1, Len(history)) = history
    /\ Last(history').asset = pk
    /\ Last(history').action = action
    /\ Len(HistoryOf(history', pk)) = Len(HistoryOf(history, pk)) + 1

\* C1: every asset with an assignee has an assigned_date and the status
\* assigned; every asset without one has no assigned_date and another status.
C1_AssignmentInvariant ==
    \A a \in assets :
        /\ a.assigned_to # NULL =>
               a.assigned_date # NULL /\ a.status = "assigned"
        /\ a.assigned_to = NULL =>
               a.assigned_date = NULL /\ a.status # "assigned"

\* C2, as stated: every POST to assign_asset and every POST to unassign_asset
\* on an existing asset adds exactly one history row of that asset, with the
\* action assigned, respectively unassigned.
C2_EveryPostAddsOneRow ==
    [][\A pk \in Ids(assets) :
        /\ (\E e \in 0..MaxEmployees : assign_asset(pk, "POST", e)) =>
               AppendsOne(pk, "assigned")
        /\ unassign_asset(pk, "POST") => AppendsOne(pk, "unassigned")]_vars

\* C2, amended: a POST to assign_asset that names an existing employee, and a
\* POST to unassign_asset on an asset that has an assignee, add exactly one
\* history row of that asset, with the action assigned, respectively
\* unassigned; every other POST to the two views leaves the history as it is.
C2_CompletedPostAddsOneRow ==
    [][\A pk \in Ids(assets) :
        /\ \A e \in 0..MaxEmployees :
               assign_asset(pk, "POST", e) =>
                   IF e \in Ids(employees)
                   THEN AppendsOne(pk, "assigned")
                   ELSE history' = history
        /\ unassign_asset(pk, "POST") =>
               IF ById(assets, pk).assigned_to # NULL
               THEN AppendsOne(pk, "unassigned")
               ELSE history' = history]_vars

\* An asset went through Assign and then Unassign: its two latest history
\* rows say so.
C2_Witness ==
    \E pk \in Ids(assets) :
        LET h == HistoryOf(history, pk)
        IN  /\ Len(h) >= 2
            /\ h[Len(h) - 1].action = "assigned"
            /\ h[Len(h)].action = "unassigned"

\* The state a completed Assign of asset pk leaves: the asset has an
\* assignee and the latest history row is the assignment's.
JustAssigned(pk) ==
    /\ pk \in Ids(assets)
    /\ ById(assets, pk).assigned_to # NULL
    /\ history # <<>>
    /\ Last(history).asset = pk
    /\ Last(history).action = "assigned"

Cleared(pk) ==
    LET a == ById(assets, pk)
    IN  a.status = "available" /\ a.assigned_to = NULL /\ a.assigned_date = NULL

\* C3: Assign(asset, employee) followed by Unassign(asset) leaves the asset
\* available, without assignee and without assigned_date, whatever its status
\* was: a completed Assign leaves the state JustAssigned, and Unassign from
\* that state leaves the asset Cleared.
C3_AssignThenUnassign ==
    [][\A pk \in Ids(assets) :
        /\ \A e \in Ids(employees) :
               assign_asset(pk, "POST", e) => JustAssigned(pk)'
        /\ (JustAssigned(pk) /\ unassign_asset(pk, "POST")) => Cleared(pk)']_vars

\* Unassign has followed Assign on an asset whose status had been edited.
C3_Witness ==
    \E pk \in Ids(assets) :
        /\ Cleared(pk)
        /\ steps = 0
        /\ Len(history) >= 2
        /\ history[Len(history) - 1].asset = pk
        /\ history[Len(history) - 1].action = "assigned"
        /\ Last(history).asset = pk
        /\ Last(history).action = "unassigned"
        /\ Last(history).id = history[Len(history) - 1].id + 1

\* C4: a completed Assign(asset, employee) leaves the asset with that
\* assignee, the current date as assigned_date and the status assigned, and
\* its other fields as they were.
C4_AssignSetsFields ==
    [][\A pk \in Ids(assets), e \in Ids(employees) :
        assign_asset(pk, "POST", e) =>
            /\ Ids(assets') = Ids(assets)
            /\ ById(assets', pk) =
                   [ById(assets, pk) EXCEPT !.assigned_to = e,
                                            !.assigned_date = today',
                                            !.status = "assigned"]]_vars

\* An asset assigned on day 1 was assigned again, to another employee, on a
\* later day.
C4_Witness ==
    \E a \in assets :
        /\ a.assigned_to # NULL
        /\ a.status = "assigned"
        /\ a.assigned_date = today
        /\ today > 1
        /\ Last(history).asset = a.id
        /\ Last(history).action = "assigned"
        /\ Last(history).old_value # <<"None">>
        /\ Last(history).new_value = full_name(ById(employees, a.assigned_to))
        /\ Last(history).old_value[1] # Last(history).new_value[1]

\* C5: a history row, once written, stays as it is: no step changes it or
\* removes it while its asset exists (the rows that go with a deleted asset
\* are C9's cascade).
C5_HistoryWriteOnce ==
    [][\A i \in 1..Len(history) :
        history[i].asset \in Ids(assets') =>
            \E j \in 1..Len(history') : history'[j] = history[i]]_vars

\* C6: a step that creates an asset or changes a field of one (no employee
\* being deleted) appends exactly one history row, of that asset and by the
\* acting user.
C6_EveryAssetChangeLogged ==
    [][\A a \in assets' :
        (/\ employees' = employees
         /\ a \notin assets) =>
            /\ Len(history') = Len(history) + 1
            /\ Last(history').asset = a.id
            /\ Last(history').performed_by = request_user]_vars

\* C7: is_under_warranty is true exactly when warranty_expiry is set and not
\* before today: false without a date, true on the expiry day and before
\* it, false after it.
C7_UnderWarranty ==
    \A a \in assets :
        /\ a.warranty_expiry = NULL => ~is_under_warranty(a, today)
        /\ (a.warranty_expiry # NULL /\ a.warranty_expiry = today) =>
               is_under_warranty(a, today)
        /\ (a.warranty_expiry # NULL /\ a.warranty_expiry > today) =>
               is_under_warranty(a, today)
        /\ (a.warranty_expiry # NULL /\ a.warranty_expiry < today) =>
               ~is_under_warranty(a, today)

\* Two assets on the expiry day of one and after the expiry day of the other.
C7_Witness ==
    \E a, b \in assets :
        /\ a.warranty_expiry = today /\ is_under_warranty(a, today)
        /\ b.warranty_expiry # NULL /\ b.warranty_expiry < today
        /\ ~is_under_warranty(b, today)

\* No history row and no maintenance row refers to an asset that is not there.
NoDangling ==
    /\ \A i \in 1..Len(history) : history[i].asset \in Ids(assets)
    /\ \A m \in maintenance : m.asset \in Ids(assets)

\* C9: a step that deletes assets deletes exactly the history rows and the
\* maintenance rows that refer to them, and no row ever refers to an asset
\* that does not exist.
C9_AssetDeleteCascades ==
    /\ NoDangling
    /\ [][/\ NoDangling'
          /\ LET gone == Ids(assets) \ Ids(assets')
             IN  gone # {} =>
                     /\ history' = Surviving(history, gone)
                     /\ maintenance' = {m \in maintenance : m.asset \notin gone}
                     /\ assets' = {a \in assets : a.id \notin gone}]_vars

\* The first asset was deleted with its history row and its maintenance
\* record; the second asset's history row is still there.
C9_Witness ==
    /\ Ids(assets) = {2}
    /\ seq.maintenance = 2
    /\ maintenance = {}
    /\ Len(history) = 1
    /\ history[1].asset = 2
    /\ history[1].id = 2

\* The rows of a table that a step removes.
Gone(table, table2) == Ids(table) \ Ids(table2)

\* The step leaves every row of rows in place, with its reference field to
\* the rows gone cleared and every other field as it was.
OnlyNulled(rows, rows2, field, gone) ==
    /\ Ids(rows2) = Ids(rows)
    /\ Cardinality(rows2) = Cardinality(rows)
    /\ \A r \in rows :
           ById(rows2, r.id) =
               IF r[field] \in gone THEN [r EXCEPT ![field] = NULL] ELSE r

\* C8: a step that deletes a Category, a Location or a Vendor removes no
\* Asset, and one that deletes a Department removes no Employee: every row
\* stays, the rows that referred to the deleted entity refer to nothing, and
\* no other field changes.
C8_LookupDeleteSetsNull ==
    [][/\ Gone(categories, categories') # {} =>
              /\ OnlyNulled(assets, assets', "category",
                            Gone(categories, categories'))
              /\ employees' = employees
       /\ Gone(locations, locations') # {} =>
              /\ OnlyNulled(assets, assets', "location",
                            Gone(locations, locations'))
              /\ employees' = employees
       /\ Gone(vendors, vendors') # {} =>
              /\ OnlyNulled(assets, assets', "vendor", Gone(vendors, vendors'))
              /\ employees' = employees
       /\ Gone(departments, departments') # {} =>
              /\ OnlyNulled(employees, employees', "department",
                            Gone(departments, departments'))
              /\ assets' = assets]_vars

\* The category of the assigned asset T1 and the department of its assignee
\* were deleted: both rows are there, without category and department.
C8_Witness ==
    /\ categories = {}
    /\ departments = {}
    /\ \E a \in assets :
           /\ a.id = 1
           /\ a.category = NULL
           /\ a.assigned_to = 1
           /\ a.status = "assigned"
    /\ \E e \in employees : e.id = 1 /\ e.department = NULL

\* The name a cell of the spreadsheets stands for: its text without the
\* white space around it.
CellName(cell) ==
    CASE cell = <<"a">> -> "a"
      [] cell = <<"a", " ">> -> "a"
      [] cell = <<" ", "a">> -> "a"
      [] cell = <<"b">> -> "b"

\* The rows of a lookup table that bear the name a cell stands for.
Named(table, cell) == {r \in table : r.name = CellName(cell)}

\* What one row of an asset import does with one lookup column that it
\* fills in: it adds at most one row to the table, of the cell's name and
\* only if the table holds none of that name; and if the row is imported,
\* the table then holds exactly one row of that name and the row's asset
\* refers to it.
GetsOrCreates(cell, table, table2, field, tag) ==
    notna(cell) =>
        /\ table \subseteq table2
        /\ table2 \ table \subseteq Named(table2, cell)
        /\ Cardinality(table2 \ table) <= 1
        /\ Named(table, cell) # {} => table2 = table
        /\ (imp'.success_count = imp.success_count + 1) =>
               \E r \in Named(table2, cell), a \in assets' :
                   /\ Named(table2, cell) = {r}
                   /\ Named(table, cell) \subseteq {r}
                   /\ a.asset_tag = tag
                   /\ a[field] = r.id

RowStep ==
    \/ \E row \in ImportRows : bulk_import_row(row)
    \/ \E row \in ImportEmployeeRows : bulk_import_employees_row(row)

\* C11: a failing row does not abort an import.  The loop starts at the
\* first of the file's rows with both counters at zero; every pass, failing
\* or not, moves on by one row and counts it once; a failing pass leaves the
\* assets, their history and the employees that earlier rows wrote as they
\* are; while rows are left the next pass can be taken; and the loop ends
\* only when no row is left, so that the counters add up to the rows of the
\* file.
C11_FailingRowDoesNotAbort ==
    /\ [](~Idle => imp.success_count + imp.error_count = imp.index)
    /\ []((~Idle /\ imp.left > 0 /\ steps > 0) => ENABLED RowStep)
    /\ [][/\ \A n \in 0..MaxImportRows :
               (bulk_import(n) \/ bulk_import_employees(n)) =>
                   /\ imp'.left = n
                   /\ imp'.index = 0
                   /\ imp'.success_count + imp'.error_count = 0
          /\ RowStep =>
               /\ imp'.left = imp.left - 1
               /\ imp'.index = imp.index + 1
               /\ \/ /\ imp'.success_count = imp.success_count + 1
                     /\ imp'.error_count = imp.error_count
                  \/ /\ imp'.success_count = imp.success_count
                     /\ imp'.error_count = imp.error_count + 1
                     /\ assets' = assets
                     /\ history' = history
                     /\ employees' = employees
          /\ (bulk_import_end \/ bulk_import_employees_end) =>
               /\ imp.left = 0
               /\ UNCHANGED tables]_vars

\* An asset import of a long file is at its end: its first row failed, a
\* later row made an asset, and every row was counted.
C11_Witness ==
    /\ imp.kind = "assets"
    /\ imp.left = 0
    /\ imp.index = MaxImportRows
    /\ imp.errors # <<>>
    /\ imp.errors[1] = 2
    /\ imp.success_count > 0
    /\ imp.success_count + imp.error_count = MaxImportRows
    /\ assets # {}

\* The messages of one level in a response, in the order they were queued.
OfLevel(r, level) ==
    LET Is(m) == m.level = level
    IN  SelectSeq(r.messages, Is)

Min(a, b) == IF a < b THEN a ELSE b

\* The loop of an import of this kind has ended.
AtEnd(kind) == imp.kind = kind /\ imp.left = 0

CellKey(cell) ==
    CASE cell = <<"T1">> -> "T1"
      [] cell = <<" ", "T1">> -> "T1"
      [] cell = <<"T2">> -> "T2"
      [] cell = <<"E1">> -> "E1"
      [] cell = <<"E2", " ">> -> "E2"

\* No two rows of a table bear the same key.
UniqueKey(table, field) ==
    \A r, q \in table : r[field] = q[field] => r = q

\* The pass of an import over a row whose key a row of the table bears:
\* no row is added or removed, the other rows stay as they are, and if the
\* pass succeeds the row of that key has the name the file gives, under the
\* primary key it had.
Updates(table, table2, field, key, name_field, name) ==
    (\E r \in table : r[field] = key) =>
        /\ Ids(table2) = Ids(table)
        /\ Cardinality(table2) = Cardinality(table)
        /\ \A r \in table : r[field] # key => r \in table2
        /\ \A r \in table :
               r[field] = key =>
                   IF imp'.success_count = imp.success_count + 1
                   THEN \E q \in table2 :
                            /\ q.id = r.id
                            /\ q[field] = key
                            /\ q[name_field] = name
                   ELSE r \in table2

\* C13: the imports are upserts by asset_tag and by employee_id.  No two
\* assets bear one asset_tag and no two employees one employee_id; a row of
\* a file whose key exists creates no second entity, and if it is imported
\* the entity of that key carries the row's values.
C13_ImportIsUpsertByKey ==
    /\ [](UniqueKey(assets, "asset_tag") /\ UniqueKey(employees, "employee_id"))
    /\ [][/\ \A row \in ImportRows :
               bulk_import_row(row) =>
                   Updates(assets, assets', "asset_tag", CellKey(row.asset_tag),
                           "name", row.name[1])
          /\ \A row \in ImportEmployeeRows :
               bulk_import_employees_row(row) =>
                   Updates(employees, employees', "employee_id",
                           CellKey(row.employee_id),
                           "first_name", row.first_name[1])]_vars

\* Two rows of an asset import and two rows of an employee import bore the
\* same key under different names: there is one asset, created once, and one
\* employee, both under the later name.
C13_Witness ==
    /\ imp.success_count >= 2
    /\ \E a \in assets :
           /\ assets = {a}
           /\ a.asset_tag = "T1"
           /\ a.name = "n2"
           /\ Len(history) = 1
           /\ history[1].asset = a.id
    /\ \E e \in employees :
           /\ employees = {e}
           /\ e.employee_id = "E1"
           /\ e.first_name = "Bob"

\* The request that r has become after a step.
Moved(r) == CHOOSE q \in inflight' : q.id = r.id

\* The history row the request r created is in h.
Logged(r, h) ==
    \E i \in 1..Len(h) :
        /\ h[i].asset = r.asset.id
        /\ h[i].action = IF r.view = "assign_asset" THEN "assigned"
                          ELSE "unassigned"
        /\ h[i].performed_by = r.user

\* C14: the notification step of Assign and of Unassign changes no row,
\* whether the mail goes out, fails or is not asked for: the asset stays as
\* saved and the request's history row stays.  A mail that fails is answered
\* with a warning and the redirect, every other outcome with a success
\* message and the redirect.
C14_MailFailureKeepsChange ==
    [][\A r \in inflight, mail_ok \in BOOLEAN :
          (assign_asset_send_email(r, mail_ok)
           \/ unassign_asset_send_email(r, mail_ok)) =>
              /\ UNCHANGED tables
              /\ Logged(r, history')
              /\ Moved(r).pc = "redirect"
              /\ Moved(r).level =
                     IF r.send_email /\ ~mail_ok THEN "warning"
                     ELSE "success"]_vars

\* The mail of an assignment failed: the request is at its redirect with a
\* warning, the asset is assigned to its employee and the latest history
\* row is the assignment's.
C14_Witness ==
    \E r \in inflight :
        /\ r.view = "assign_asset"
        /\ r.pc = "redirect"
        /\ r.level = "warning"
        /\ \E a \in assets, e \in r.employee :
               /\ a.id = r.asset.id
               /\ a.assigned_to = e.id
               /\ a.status = "assigned"
               /\ Last(history).asset = a.id
               /\ Last(history).action = "assigned"
               /\ Last(history).new_value = full_name(e)

\* C15: a POST to unassign_asset for an asset without assignee changes no
\* field of any asset, the status of that asset in particular, and writes
\* no history row.
C15_UnassignNeedsAssignee ==
    [][\A pk \in Ids(assets) :
          (ById(assets, pk).assigned_to = NULL /\ unassign_asset(pk, "POST")) =>
              /\ assets' = assets
              /\ ById(assets', pk).status = ById(assets, pk).status
              /\ history' = history
              /\ seq' = seq]_vars

\* An asset without assignee whose status is not available (the admin form
\* set it to assigned) after the requests of the behaviour, Unassign among
\* them: it still has that status, and its one history row.
C15_Witness ==
    /\ steps = 0
    /\ \E a \in assets :
           /\ a.assigned_to = NULL
           /\ a.status = "assigned"
           /\ Len(HistoryOf(history, a.id)) = 1

\* The name of the assignee of asset pk as the history's new_value writes
\* it, or the word None.
AssigneeName(pk) ==
    IF ById(assets, pk).assigned_to \in Ids(employees)
    THEN full_name(ById(employees, ById(assets, pk).assigned_to))
    ELSE <<"None">>

\* C16: the row a completed Assign writes has the name of the asset's
\* assignee before the call as old_value (None without one) and the name of
\* the new assignee as new_value, in one format, so that the old_value of a
\* reassignment is the new_value of the assignment before it; the row of an
\* Unassign has the name of the assignee it removed as old_value.
C16_HistoryValuesNameAssignees ==
    [][\A pk \in Ids(assets) :
          /\ \A e \in Ids(employees) :
                 assign_asset(pk, "POST", e) =>
                     /\ Last(history').old_value = AssigneeName(pk)
                     /\ Last(history').new_value =
                            full_name(ById(employees, e))
                     /\ \A i \in 1..Len(history) :
                            (/\ history[i].asset = pk
                             /\ history[i].action = "assigned"
                             /\ ById(assets, pk).assigned_to # NULL
                             /\ \A j \in (i + 1)..Len(history) :
                                    history[j].asset # pk) =>
                                Last(history').old_value = history[i].new_value
          /\ (ById(assets, pk).assigned_to # NULL
              /\ unassign_asset(pk, "POST")) =>
                 Last(history').old_value = AssigneeName(pk)]_vars

\* The next statement of the request r.
Serve(r) ==
    \/ assign_asset_save(r)
    \/ assign_asset_create(r)
    \/ \E mail_ok \in BOOLEAN : assign_asset_send_email(r, mail_ok)
    \/ unassign_asset_save(r)
    \/ unassign_asset_create(r)
    \/ \E mail_ok \in BOOLEAN : unassign_asset_send_email(r, mail_ok)
    \/ respond(r)

\* C17: concurrent Assign requests are not serialized and the last write
\* wins.  A request being served can always take its next statement,
\* whatever other requests are being served; the save of an Assign leaves
\* the asset, one row, with that request's employee as assignee, whatever
\* was saved since the request read the asset; only a save changes the
\* assets; and a request's create appends its history row and no step
\* removes one.
C17_LastAssignWins ==
    /\ [](\A r \in inflight : ENABLED Serve(r))
    /\ [][/\ \A r \in inflight :
               assign_asset_save(r) =>
                   \E a \in assets', e \in r.employee :
                       /\ a.id = r.asset.id
                       /\ a.assigned_to = e.id
                       /\ a.status = "assigned"
                       /\ \A b \in assets' : b.id = a.id => b = a
          /\ assets' # assets =>
               \E r \in inflight :
                   assign_asset_save(r) \/ unassign_asset_save(r)
          /\ \A r \in inflight :
               assign_asset_create(r) =>
                   /\ Len(history') = Len(history) + 1
                   /\ Last(history').asset = r.asset.id
                   /\ Last(history').action = "assigned"
                   /\ Last(history').new_value =
                          full_name(CHOOSE e \in r.employee : TRUE)
          /\ SubSeq(history', 1, Len(history)) = history]_vars

\* Two Assign requests for the asset were served at the same time, for
\* different employees, and both are at their redirect: the asset has the
\* assignee of the request that saved last, which is not the one whose
\* history row is the latest, and both history rows are there.
C17_Witness ==
    \E r, q \in inflight :
        /\ r.view = "assign_asset" /\ q.view = "assign_asset"
        /\ r.pc = "redirect" /\ q.pc = "redirect"
        /\ r.asset.id = q.asset.id
        /\ r.employee # q.employee
        /\ r.old_assignee = {} /\ q.old_assignee = {}
        /\ ById(assets, r.asset.id).assigned_to = r.asset.assigned_to
        /\ Len(history) = 3
        /\ history[2].action = "assigned"
        /\ history[2].new_value = full_name(CHOOSE e \in r.employee : TRUE)
        /\ history[3].action = "assigned"
        /\ history[3].new_value = full_name(CHOOSE e \in q.employee : TRUE)

\* The asset pk has an assignee that no 'assigned' row of its history names.
Unlogged(pk) ==
    \E a \in assets :
        /\ a.id = pk
        /\ a.assigned_to # NULL
        /\ \A k \in 1..Len(history) :
               ~ /\ history[k].asset = pk
                 /\ history[k].action = "assigned"
                 /\ history[k].new_value =
                        full_name(ById(employees, a.assigned_to))

\* C18: the asset update and the history write are separate steps with
\* nothing atomic around them.  The save of a request changes no history and
\* its create changes no asset; a request that stops after its save leaves
\* every table as it is, the saved asset included; a history row is only
\* ever added by the create of a request that is past its save; and an
\* assignee that no history row names stays so unless a request for that
\* asset saves or logs.
C18_SaveAndHistoryAreSeparate ==
    [][/\ \A r \in inflight :
            /\ assign_asset_save(r) \/ unassign_asset_save(r) =>
                   history' = history
            /\ assign_asset_create(r) \/ unassign_asset_create(r) =>
                   assets' = assets
            /\ stop(r) => assets' = assets /\ history' = history
       /\ history' # history =>
            \E r \in inflight :
                /\ r.pc = "save"
                /\ assign_asset_create(r) \/ unassign_asset_create(r)
       /\ \A pk \in 1..MaxAssets :
            Unlogged(pk) /\ ~Unlogged(pk)' =>
                \E r \in inflight :
                    /\ r.asset.id = pk
                    /\ \/ assign_asset_save(r)
                       \/ unassign_asset_save(r)
                       \/ assign_asset_create(r)]_vars

\* A request stopped between its save and its create and no request is being
\* served: the asset is assigned and its history has the 'created' row only.
C18_Witness ==
    /\ inflight = {}
    /\ Unlogged(1)
    /\ ById(assets, 1).status = "assigned"
    /\ Len(history) = 1

\* The assets that have a warranty_expiry.
Dated == {a \in assets : a.warranty_expiry # NULL}

\* C19: the report's warranty buckets follow the current date.  valid counts
\* the assets whose warranty_expiry is today or later, expiring those whose
\* warranty_expiry is from today to thirty days on, expired those whose
\* warranty_expiry is before today; so expiring is at most valid, valid and
\* expired add up to the assets that have a date, and the dashboard lists
\* the expiring ones.  Asking for the report changes no row.
C19_WarrantyBuckets ==
    /\ [](/\ warranty_valid =
              Cardinality({a \in Dated : a.warranty_expiry >= today})
          /\ warranty_expiring =
              Cardinality({a \in Dated : /\ today <= a.warranty_expiry
                                         /\ a.warranty_expiry <= today + 30})
          /\ warranty_expired =
              Cardinality({a \in Dated : a.warranty_expiry < today})
          /\ warranty_expiring <= warranty_valid
          /\ warranty_valid + warranty_expired = Cardinality(Dated)
          /\ Cardinality(expiring_warranty) = warranty_expiring)
    /\ [][reports => tables' = tables]_vars

\* A day has passed and the report was asked for: one warranty ends today,
\* which is valid and expiring, and the other ended the day before, which is
\* expired.
C19_Witness ==
    /\ today = 2
    /\ steps = 0
    /\ warranty_valid = 1
    /\ warranty_expiring = 1
    /\ warranty_expired = 1
    /\ \E a \in assets : a.warranty_expiry = today

\* The response carries a message for the user and is a redirect.
MessageAndRedirect(response) ==
    response.status = "redirect" /\ Len(response.messages) >= 1

\* The upload fails one of the checks C20 lists: no file, a name that is not
\* an Excel name, a required column missing.
FailsValidation(upload) ==
    \/ ~upload.file
    \/ ~upload.excel_name
    \/ upload.readable /\ ~upload.columns

\* A POST of assign_asset for an asset that exists, naming an employee id
\* that no employee has.
AssignsUnknownEmployee(pk, e) ==
    /\ pk \in Ids(assets)
    /\ e \notin Ids(employees)
    /\ assign_asset(pk, "POST", e)

\* C20: a request that fails validation (an import with no file, with a
\* name that is not an Excel name or without a required column, an Assign
\* naming an employee id that does not exist) is answered with a message
\* and a redirect and leaves every row as it is.
C20_ValidationFailureIsMessageAndRedirect ==
    [][/\ \A upload \in Uploads :
            /\ bulk_import_rejected(upload) /\ FailsValidation(upload) =>
                   /\ MessageAndRedirect(bulk_import_refusal(upload))
                   /\ tables' = tables
            /\ bulk_import_employees_rejected(upload)
                   /\ FailsValidation(upload) =>
                   /\ MessageAndRedirect(bulk_import_employees_refusal(upload))
                   /\ tables' = tables
       /\ \A pk \in 1..MaxAssets, e \in 1..MaxEmployees :
            AssignsUnknownEmployee(pk, e) =>
                /\ MessageAndRedirect(assign_asset_response(pk, "POST", e))
                /\ tables' = tables]_vars

\* C20 as amended: a request that fails validation leaves every row as it
\* is.  The asset import answers each failed check with one error message
\* and the redirect to its form.  The employee import answers a missing
\* file or column that way, answers a file it cannot read with the error
\* message on its form page, and accepts any file name.  An Assign naming
\* an employee id that no employee has is answered with the 404 page,
\* without a message.
C20_ValidationFailureChangesNothing ==
    [][/\ \A upload \in Uploads :
            /\ bulk_import_rejected(upload) =>
                   LET response == bulk_import_refusal(upload)
                   IN  /\ response.status = "redirect"
                       /\ response.to = "bulk_import"
                       /\ Len(response.messages) = 1
                       /\ response.messages[1].level = "error"
                       /\ tables' = tables
            /\ bulk_import_employees_rejected(upload) =>
                   LET response == bulk_import_employees_refusal(upload)
                   IN  /\ response.status =
                              IF upload.file /\ ~upload.readable THEN "page"
                              ELSE "redirect"
                       /\ response.to = "bulk_import_employees"
                       /\ Len(response.messages) = 1
                       /\ response.messages[1].level = "error"
                       /\ tables' = tables
                       /\ ~upload.file \/ ~upload.readable \/ ~upload.columns
       /\ \A pk \in 1..MaxAssets, e \in 1..MaxEmployees :
            AssignsUnknownEmployee(pk, e) =>
                /\ assign_asset_response(pk, "POST", e).status = "404"
                /\ assign_asset_response(pk, "POST", e).messages = <<>>
                /\ tables' = tables]_vars

\* An asset was imported and no employee has the id 1: the Assign that names
\* it and the uploads that fail the checks are the requests to answer.
C20_Witness ==
    /\ 1 \in Ids(assets)
    /\ 1 \notin Ids(employees)
    /\ ENABLED assign_asset(1, "POST", 1)
    /\ ENABLED bulk_import_rejected([file |-> FALSE, excel_name |-> FALSE,
                                     readable |-> FALSE, columns |-> FALSE])
    /\ ENABLED bulk_import_employees_rejected(
                   [file |-> TRUE, excel_name |-> FALSE, readable |-> FALSE,
                    columns |-> FALSE])

\* A step of the user-management views that admits or serves nothing for a
\* requester is_admin refuses.
ManagesUsers ==
    \/ \E pk \in 1..MaxUsers : user_toggle_active(pk)
    \/ \E pk \in 1..MaxUsers, method \in {"GET", "POST"},
          group_id \in {NULL, 1, Len(roles) + 1} :
        user_change_role(pk, method, group_id)
    \/ setup_roles
    \/ \E method \in {"GET", "POST"}, username \in {"staff", "u1", "u2"},
          email \in {"staff@x", "a@x"}, group_id \in {NULL, 1} :
        create_user(method, username, email, group_id)

\* C21: user and role management is admin-only.  A request of
\* user_toggle_active, user_change_role, create_user or setup_roles from a
\* requester that is neither a superuser nor in the group Admin changes no
\* user and no group and is not taken into service; users and groups change
\* only by a request of such a requester, or by a create_user request that
\* was taken into service.
C21_UserManagementIsAdminOnly ==
    [][/\ ManagesUsers /\ ~passes_is_admin =>
            users' = users /\ groups' = groups /\ creating' = creating
       /\ users' # users \/ groups' # groups =>
            \/ ManagesUsers /\ passes_is_admin
            \/ \E r \in creating :
                   create_user_create(r) \/ create_user_group(r)]_vars

\* The staff account, no superuser, is in the group Admin and is the
\* requester, and the superuser's account has been switched off.
C21_Witness ==
    /\ request_user = 2
    /\ \E u \in users :
           /\ u.id = 2
           /\ ~u.is_superuser
           /\ \E g \in groups : g.name = "Admin" /\ g.id \in u.groups
    /\ \E u \in users : u.id = 1 /\ ~u.is_active

\* C22: in every reachable state every asset's status is one of available,
\* assigned, maintenance, retired, lost and its condition one of new, good,
\* fair, poor, whatever the cells of an imported spreadsheet hold.
C22_StatusAndConditionAreChoices ==
    \A a \in assets :
        a.status \in STATUS_CHOICES /\ a.condition \in CONDITION_CHOICES

\* The number of 'created' rows the history holds for the asset pk.
CountCreated(s, pk) ==
    Cardinality({k \in 1..Len(s) :
                    s[k].asset = pk /\ s[k].action = "created"})

\* C23: creating an asset, by the admin site or by an import row with a new
\* asset_tag, appends exactly one 'created' row for it, so every asset has
\* exactly one 'created' row; a step on an asset that exists already appends
\* no 'created' row.
C23_OneCreatedRowPerAsset ==
    /\ [](\A a \in assets : CountCreated(history, a.id) = 1)
    /\ [][\A pk \in 1..MaxAssets :
            /\ pk \notin Ids(assets) /\ pk \in Ids(assets') =>
                   /\ Len(history') = Len(history) + 1
                   /\ Last(history').asset = pk
                   /\ Last(history').action = "created"
            /\ pk \in Ids(assets) /\ pk \in Ids(assets') =>
                   CountCreated(history', pk) <= CountCreated(history, pk)]_vars

\* The positions of the history rows of the asset pk.
RowsOf(pk) == {k \in 1..Len(history) : history[k].asset = pk}

\* C24: once every Assign and Unassign request on an asset has completed,
\* however they interleaved, the latest history row of the asset agrees with
\* the asset: an 'assigned' row names the asset's assignee in new_value, an
\* 'unassigned' row goes with an asset that has no assignee.
C24_LatestRowAgreesWithAsset ==
    inflight = {} =>
        \A a \in assets :
            RowsOf(a.id) # {} =>
                LET latest ==
                        history[CHOOSE k \in RowsOf(a.id) :
                                    \A j \in RowsOf(a.id) : j <= k]
                IN  /\ latest.action = "assigned" =>
                           /\ a.assigned_to # NULL
                           /\ latest.new_value =
                                  full_name(ById(employees, a.assigned_to))
                    /\ latest.action = "unassigned" => a.assigned_to = NULL

\* The table with the is_active of the row pk switched.
Toggled(table, pk) ==
    {IF u.id = pk THEN [u EXCEPT !.is_active = ~@] ELSE u : u \in table}

\* C25: user_toggle_active never lets an admin switch off their own account.
\* When the target is the requester, no user changes and the answer carries
\* an error message; for any other target that exists, is_active of that
\* user is switched and nothing else changes, so a second toggle gives the
\* table before the first.
C25_NoSelfDeactivation ==
    [][\A pk \in 1..MaxUsers :
            user_toggle_active(pk) /\ passes_is_admin /\ pk \in Ids(users) =>
                IF pk = request_user
                THEN /\ users' = users
                     /\ LET shown == user_toggle_active_response(pk).messages
                        IN  \E k \in 1..Len(shown) : shown[k].level = "error"
                ELSE /\ users' = Toggled(users, pk)
                     /\ users' # users
                     /\ Toggled(users', pk) = users
                     /\ groups' = groups]_vars

\* An admin who is the requester has switched another account off, and
\* their own is active.
C25_Witness ==
    /\ passes_is_admin
    /\ \E u \in users : u.id # request_user /\ ~u.is_active

\* C26: user_change_role moves the user to exactly the requested group or,
\* when no group is requested, takes the user out of every group; when the
\* requested group does not exist the user's groups are as before the
\* request.
C26_ChangeRoleIsAllOrNothing ==
    [][\A pk \in 1..MaxUsers, group_id \in {NULL, 1, Len(roles) + 1} :
            /\ user_change_role(pk, "POST", group_id)
            /\ passes_is_admin
            /\ pk \in Ids(users)
            => ById(users', pk).groups =
                   IF group_id = NULL THEN {}
                   ELSE IF group_id \in Ids(groups) THEN {group_id}
                   ELSE ById(users, pk).groups]_vars

\* C27: after any create_user requests, concurrent ones included, no two
\* users share a username and no two share an email, and a request whose
\* username or email a user already has creates no user.
C27_UsernamesAndEmailsAreUnique ==
    /\ [](\A u, v \in users :
              u # v => u.username # v.username /\ u.email # v.email)
    /\ [][\A r \in creating :
            /\ create_user_create(r)
            /\ \E u \in users :
                   u.username = r.username \/ u.email = r.email
            => users' = users]_vars

\* C28: a request to assign_asset or unassign_asset that is no POST, and a
\* POST to assign_asset without employee_id, changes no asset and writes no
\* history row.
C28_OnlyPostWithEmployeeChanges ==
    [][\A pk \in 1..MaxAssets :
            /\ \A e \in 0..MaxEmployees :
                   assign_asset(pk, "GET", e) =>
                       assets' = assets /\ history' = history
            /\ unassign_asset(pk, "GET") =>
                   assets' = assets /\ history' = history
            /\ assign_asset(pk, "POST", NULL) =>
                   assets' = assets /\ history' = history]_vars

\* The seeded database after a request that changed nothing: the asset is
\* there to assign and the employee to assign it to.
C28_Witness ==
    /\ Seeded
    /\ steps < MaxSteps
    /\ today = 1
    /\ ENABLED assign_asset(1, "GET", 1)
    /\ ENABLED assign_asset(1, "POST", NULL)
    /\ ENABLED unassign_asset(1, "GET")

\* C29: an import row for an asset_tag that exists leaves the asset's
\* assigned_to and assigned_date as they are, and a row that is imported
\* overwrites the asset's status with the row's status, stripped and in
\* lower case, or with 'available' when the row has none.
C29_ImportKeepsAssignmentOverwritesStatus ==
    [][\A row \in PlainRows :
            bulk_import_row(row) =>
                \A a \in assets :
                    a.asset_tag = Text(strip(row.asset_tag)) =>
                        \E b \in assets' :
                            /\ b.id = a.id
                            /\ b.assigned_to = a.assigned_to
                            /\ b.assigned_date = a.assigned_date
                            /\ imp'.success_count > imp.success_count =>
                                   b.status =
                                       IF row.status = NaN THEN "available"
                                       ELSE IF row.status = <<" ", "Assigned">>
                                       THEN "assigned"
                                       ELSE "?"]_vars

\* An assigned asset was imported again by a row without status: it is
\* still assigned to its employee, since the same day, and its status is
\* 'available'.
C29_Witness ==
    /\ imp.kind = "assets"
    /\ imp.success_count = 1
    /\ \E a \in assets :
           /\ a.assigned_to # NULL
           /\ a.assigned_date # NULL
           /\ a.status = "available"
           /\ a.name = "n2"

\* C30: an asset is only ever assigned to an active employee: whatever
\* Assign requests, employee imports and admin edits came before, the
\* employee an Assign has just set as assigned_to has is_active true.
C30_AssignsOnlyActiveEmployees ==
    [][\A pk \in 1..MaxAssets, e \in 1..MaxEmployees :
            /\ assign_asset(pk, "POST", e)
            /\ pk \in Ids(assets)
            /\ e \in Ids(employees)
            => /\ ById(assets', pk).assigned_to = e
               /\ ById(employees', e).is_active]_vars

====
